---- MODULE Spec2Model ----
(***************************************************************************)
(* Verification model of the layer-1 execution core of mylayer2:           *)
(*   - the journaled world state      (src/src/layer1/world_state.rs)      *)
(*   - the transaction lifecycle      (src/src/layer1/vm.rs)               *)
(*   - the opcode table and frame loop (src/src/layer1/operations.rs)      *)
(*   - the Merkle-Patricia trie       (src/src/common/trie.rs)             *)
(* Hashes are modelled as collision-free constructors over their preimage. *)
(* 256-bit words are modelled with a reduced width (U256Max).              *)
(***************************************************************************)
EXTENDS Integers, Sequences, FiniteSets, TLC

VARIABLES
    inner,      \* WorldStateTrie.inner   : address -> AccountState (BTreeMap)
    journal,    \* WorldStateTrie.journal : Option<Vec<JournalEntry>>
    snap,       \* history: the accounts held when the open checkpoint was taken
    lastOp,     \* history: the last world-state operation that completed
    block,      \* the Block handed to tx_execute (header fields + receipts)
    call,       \* history: the last tx_execute call (input, pre-state, outcome)
    trie,       \* ModifiedTrie.root : Option<TrieNodeType>
    stored,     \* history: the finite map the trie's client has built
    trieLast,   \* history: the last trie operation (input, pre-state, outcome)
    blocks      \* Blockchain.blocks : Vec<Block>

wsVars == <<inner, journal, snap, lastOp, block, call>>
trieVars == <<trie, stored, trieLast>>
vars == <<inner, journal, snap, lastOp, block, call, trie, stored, trieLast, blocks>>

(***************************************************************************)
(* Bounds                                                                  *)
(***************************************************************************)
\* largest journal explored while a checkpoint is open
MaxJournal == 2
\* reduced stand-in for 2^256 - 1, the largest U256
U256Max == 1048575

(***************************************************************************)
(* Option<T>, maps with a finite key set (BTreeMap)                        *)
(***************************************************************************)
None == [is_some |-> FALSE]
Some(v) == [is_some |-> TRUE, value |-> v]

EmptyMap == [x \in {} |-> 0]
map_insert(m, k, v) == [x \in (DOMAIN m) \cup {k} |-> IF x = k THEN v ELSE m[x]]
map_delete(m, k) == [x \in (DOMAIN m) \ {k} |-> m[x]]
map_get(m, k) == IF k \in DOMAIN m THEN Some(m[k]) ELSE None

(***************************************************************************)
(* Hashes                                                                  *)
(***************************************************************************)
\* H256::zero()
H256_zero == [kind |-> "zero"]
\* Keccak256::digest(bytes), collision free
Keccak256(pre) == [kind |-> "keccak", pre |-> pre]

(***************************************************************************)
(* The Merkle-Patricia trie (src/src/common/trie.rs): nodes and encoding   *)
(***************************************************************************)
\* the keys and values a client of the trie uses, as byte strings
TrieKeys == {<<>>, <<17>>, <<18>>, <<17, 17>>, <<17, 18>>, <<33>>}
TrieValues == {<<1>>, <<2>>}

Nibbles == 0 .. 15

LeafNode(key_nibbles, value) ==
    [type |-> "Leaf", key_nibbles |-> key_nibbles, value |-> value]
ExtensionNode(key_nibbles, child) ==
    [type |-> "Extension", key_nibbles |-> key_nibbles, child |-> child]
BranchNode(children, value) ==
    [type |-> "Branch", children |-> children, value |-> value]

\* children: Default::default(), sixteen empty slots
NoChildren == [i \in Nibbles |-> None]

\* nibbles[from ..], with from counted from 0
slice_from(nibbles, from) == SubSeq(nibbles, from + 1, Len(nibbles))

bytes_to_nibbles(bytes) ==
    [i \in 1 .. 2 * Len(bytes) |->
        IF i % 2 = 1 THEN bytes[(i + 1) \div 2] \div 16 ELSE bytes[i \div 2] % 16]

\* chunks(2): a trailing single nibble becomes the high half of a byte
nibbles_to_bytes(nibbles) ==
    [i \in 1 .. (Len(nibbles) + 1) \div 2 |->
        IF 2 * i <= Len(nibbles)
        THEN nibbles[2 * i - 1] * 16 + nibbles[2 * i]
        ELSE nibbles[2 * i - 1] * 16]

get_prefix(key, is_leaf) ==
    LET flag == IF is_leaf THEN 2 ELSE 0 IN
    IF Len(key) % 2 = 1 THEN (flag + 1) * 16 + key[1] ELSE flag * 16

hex_prefix_encode(key, is_leaf) ==
    LET start == IF Len(key) % 2 = 1 THEN 1 ELSE 0
        rest == slice_from(key, start)
    IN <<get_prefix(key, is_leaf)>> \o nibbles_to_bytes(rest)

\* RLP items: a byte string, a list of items, or a 32-byte digest
rlp_string(bytes) == [rlp |-> "string", bytes |-> bytes]
rlp_list(items) == [rlp |-> "list", items |-> items]
rlp_digest(hash) == [rlp |-> "digest", hash |-> hash]

\* bytes needed to write a payload length of 56 or more
length_of_length(n) == IF n < 256 THEN 1 ELSE IF n < 65536 THEN 2 ELSE 3

RECURSIVE rlp_len(_)
\* the number of bytes of an encoded item
rlp_len(item) ==
    IF item.rlp = "digest" THEN 33
    ELSE IF item.rlp = "string"
    THEN IF Len(item.bytes) = 1 /\ item.bytes[1] < 128 THEN 1
         ELSE IF Len(item.bytes) < 56 THEN 1 + Len(item.bytes)
         ELSE 1 + length_of_length(Len(item.bytes)) + Len(item.bytes)
    ELSE LET RECURSIVE payload(_)
             payload(i) == IF i = 0 THEN 0 ELSE rlp_len(item.items[i]) + payload(i - 1)
             n == payload(Len(item.items))
         IN IF n < 56 THEN 1 + n ELSE 1 + length_of_length(n) + n

\* the node cap: a child shorter than 32 bytes is embedded, else its digest
node_cap(child_rlp) ==
    IF rlp_len(child_rlp) < 32 THEN child_rlp ELSE rlp_digest(Keccak256(child_rlp))

RECURSIVE node_rlp(_)
\* TrieNodeType::rlp_append, the composition function c
node_rlp(node) ==
    CASE node.type = "Leaf" ->
           rlp_list(<<rlp_string(hex_prefix_encode(node.key_nibbles, TRUE)),
                      rlp_string(node.value)>>)
      [] node.type = "Extension" ->
           rlp_list(<<rlp_string(hex_prefix_encode(node.key_nibbles, FALSE)),
                      node_cap(node_rlp(node.child))>>)
      [] node.type = "Branch" ->
           rlp_list([i \in 1 .. 17 |->
               IF i = 17
               THEN rlp_string(IF node.value.is_some THEN node.value.value ELSE <<>>)
               ELSE IF node.children[i - 1].is_some
                    THEN node_cap(node_rlp(node.children[i - 1].value))
                    ELSE rlp_string(<<>>)])

node_hash(node) == Keccak256(node_rlp(node))

\* kec(rlp(b''))
EMPTY_TRIE_HASH == Keccak256(rlp_string(<<>>))

ModifiedTrie_new == None

trie_root_hash(root) == IF root.is_some THEN node_hash(root.value) ELSE EMPTY_TRIE_HASH

(***************************************************************************)
(* The trie: _insert_at, _delete_at, _get_at, MyTrieIter                   *)
(***************************************************************************)
\* a shared prefix cut short after one nibble
shared_prefix_len_capped(a, b) ==
    IF Len(a) > 0 /\ Len(b) > 0 /\ a[1] = b[1] THEN 1 ELSE 0

shared_prefix_len(a, b) ==
    LET n == IF Len(a) < Len(b) THEN Len(a) ELSE Len(b) IN
    CHOOSE len \in 0 .. n :
        /\ \A j \in 1 .. len : a[j] = b[j]
        /\ len = n \/ a[len + 1] # b[len + 1]

\* the branch a leaf or an extension is split into: the old entry under
\* suffix_old, the new value under suffix_new
split_branch(old_entry, suffix_new, value) ==
    IF Len(suffix_new) = 0
    THEN [old_entry EXCEPT !.value = Some(value)]
    ELSE [old_entry EXCEPT !.children[suffix_new[1]] =
              Some(LeafNode(Tail(suffix_new), value))]

\* the split of a leaf: its value moves to the branch or to a shorter leaf
leaf_as_branch(leaf, common_prefix) ==
    LET suffix_old == slice_from(leaf.key_nibbles, common_prefix) IN
    IF Len(suffix_old) = 0
    THEN BranchNode(NoChildren, Some(leaf.value))
    ELSE BranchNode([NoChildren EXCEPT ![suffix_old[1]] =
                        Some(LeafNode(Tail(suffix_old), leaf.value))], None)

\* the split of an extension: its child moves under the first differing nibble
extension_as_branch(extension, common_prefix) ==
    LET suffix_old == slice_from(extension.key_nibbles, common_prefix) IN
    IF Len(suffix_old) = 1
    THEN BranchNode([NoChildren EXCEPT ![suffix_old[1]] = Some(extension.child)], None)
    ELSE BranchNode([NoChildren EXCEPT ![suffix_old[1]] =
                        Some(ExtensionNode(Tail(suffix_old), extension.child))], None)

\* the new branch, under an extension when the keys share a prefix
under_prefix(key_nibbles, common_prefix, new_branch) ==
    IF common_prefix = 0 THEN new_branch
    ELSE ExtensionNode(SubSeq(key_nibbles, 1, common_prefix), new_branch)

RECURSIVE _insert_at(_, _, _)
_insert_at(node, nibbles, value) ==
    CASE node.type = "Leaf" ->
           LET common_prefix == shared_prefix_len(node.key_nibbles, nibbles) IN
           IF common_prefix = Len(node.key_nibbles) /\ common_prefix = Len(nibbles)
           THEN LeafNode(nibbles, value)
           ELSE under_prefix(node.key_nibbles, common_prefix,
                    split_branch(leaf_as_branch(node, common_prefix),
                                 slice_from(nibbles, common_prefix), value))
      [] node.type = "Extension" ->
           LET common_prefix == shared_prefix_len(node.key_nibbles, nibbles) IN
           IF common_prefix = Len(node.key_nibbles)
           THEN ExtensionNode(node.key_nibbles,
                    _insert_at(node.child, slice_from(nibbles, common_prefix), value))
           ELSE under_prefix(node.key_nibbles, common_prefix,
                    split_branch(extension_as_branch(node, common_prefix),
                                 slice_from(nibbles, common_prefix), value))
      [] node.type = "Branch" ->
           IF Len(nibbles) = 0 THEN [node EXCEPT !.value = Some(value)]
           ELSE IF node.children[nibbles[1]].is_some
           THEN [node EXCEPT !.children[nibbles[1]] =
                    Some(_insert_at(node.children[nibbles[1]].value, Tail(nibbles), value))]
           ELSE [node EXCEPT !.children[nibbles[1]] =
                    Some(LeafNode(Tail(nibbles), value))]

\* ModifiedTrie::insert
trie_insert(root, key, value) ==
    IF root.is_some
    THEN Some(_insert_at(root.value, bytes_to_nibbles(key), value))
    ELSE Some(LeafNode(bytes_to_nibbles(key), value))

\* what _delete_at and _get_at leave: a panic, or an Option
Panicked == [panicked |-> TRUE, is_some |-> FALSE]
Found(v) == [panicked |-> FALSE, is_some |-> TRUE, value |-> v]
NotFound == [panicked |-> FALSE, is_some |-> FALSE]

\* nibbles[0 .. n] is out of range when the slice is shorter than n
slice_panics(nibbles, n) == n > Len(nibbles)

\* the extension above the node its child became: leaves and extensions are
\* merged into it, a branch stays below it
extension_over(extension, new_child) ==
    CASE new_child.type = "Leaf" ->
           LeafNode(extension.key_nibbles \o new_child.key_nibbles, new_child.value)
      [] new_child.type = "Extension" ->
           ExtensionNode(extension.key_nibbles \o new_child.key_nibbles, new_child.child)
      [] new_child.type = "Branch" ->
           ExtensionNode(extension.key_nibbles, new_child)

\* a branch left with one child and no value that keeps the child below an
\* extension of one nibble
merge_only_child_unmerged(indexed_nibble, the_only_child) ==
    ExtensionNode(<<indexed_nibble>>, the_only_child)

\* a branch left with one child and no value becomes that child, one nibble longer
merge_only_child(indexed_nibble, the_only_child) ==
    CASE the_only_child.type = "Leaf" ->
           LeafNode(<<indexed_nibble>> \o the_only_child.key_nibbles, the_only_child.value)
      [] the_only_child.type = "Extension" ->
           ExtensionNode(<<indexed_nibble>> \o the_only_child.key_nibbles,
                         the_only_child.child)
      [] the_only_child.type = "Branch" ->
           ExtensionNode(<<indexed_nibble>>, the_only_child)

\* "rearrange the branch node" after a value or a child was taken from it
rearrange_branch(branch) ==
    LET occupied == {i \in Nibbles : branch.children[i].is_some}
        n_children == Cardinality(occupied)
    IN
    IF branch.value.is_some
    THEN IF n_children = 0 THEN Found(LeafNode(<<>>, <<>>)) ELSE Found(branch)
    ELSE IF n_children = 0 THEN NotFound
    ELSE IF n_children > 1 THEN Found(branch)
    ELSE LET indexed_nibble == CHOOSE i \in occupied : \A j \in occupied : i <= j
         IN Found(merge_only_child(indexed_nibble, branch.children[indexed_nibble].value))

RECURSIVE _delete_at(_, _)
_delete_at(node, nibbles) ==
    CASE node.type = "Leaf" ->
           IF node.key_nibbles = nibbles THEN NotFound ELSE Found(node)
      [] node.type = "Extension" ->
           IF slice_panics(nibbles, Len(node.key_nibbles)) THEN Panicked
           ELSE IF SubSeq(nibbles, 1, Len(node.key_nibbles)) = node.key_nibbles
           THEN LET child_node == _delete_at(node.child,
                                             slice_from(nibbles, Len(node.key_nibbles)))
                IN IF child_node.panicked THEN Panicked
                   ELSE IF child_node.is_some
                   THEN Found(extension_over(node, child_node.value))
                   ELSE NotFound
           ELSE Found(node)
      [] node.type = "Branch" ->
           IF Len(nibbles) = 0 THEN rearrange_branch([node EXCEPT !.value = None])
           \* children[child_index].take().unwrap()
           ELSE IF ~node.children[nibbles[1]].is_some THEN Panicked
           ELSE LET new_child == _delete_at(node.children[nibbles[1]].value, Tail(nibbles))
                IN IF new_child.panicked THEN Panicked
                   ELSE rearrange_branch(
                            [node EXCEPT !.children[nibbles[1]] =
                                IF new_child.is_some THEN Some(new_child.value) ELSE None])

\* ModifiedTrie::delete: the root is taken out before _delete_at runs, so a
\* panic leaves the trie without its root
trie_delete(root, key) ==
    IF root.is_some
    THEN LET r == _delete_at(root.value, bytes_to_nibbles(key)) IN
         IF r.panicked THEN [panicked |-> TRUE, root |-> None]
         ELSE [panicked |-> FALSE,
               root |-> IF r.is_some THEN Some(r.value) ELSE None]
    ELSE [panicked |-> FALSE, root |-> None]

RECURSIVE _get_at(_, _)
_get_at(node, nibbles) ==
    CASE node.type = "Leaf" ->
           IF node.key_nibbles = nibbles THEN Found(node.value) ELSE NotFound
      [] node.type = "Extension" ->
           IF slice_panics(nibbles, Len(node.key_nibbles)) THEN Panicked
           ELSE IF node.key_nibbles = SubSeq(nibbles, 1, Len(node.key_nibbles))
           THEN _get_at(node.child, slice_from(nibbles, Len(node.key_nibbles)))
           ELSE NotFound
      [] node.type = "Branch" ->
           IF Len(nibbles) = 0
           THEN IF node.value.is_some THEN Found(node.value.value) ELSE NotFound
           ELSE IF node.children[nibbles[1]].is_some
           THEN _get_at(node.children[nibbles[1]].value, Tail(nibbles))
           ELSE NotFound

\* ModifiedTrie::get_mut
trie_get(root, key) ==
    IF root.is_some THEN _get_at(root.value, bytes_to_nibbles(key)) ELSE NotFound

RECURSIVE iter_next(_)
\* MyTrieIter: the pairs next() yields until the stack is empty; the stack
\* grows at its end and a branch pushes its children from slot 15 down to 0
iter_next(stack) ==
    IF stack = <<>> THEN <<>>
    ELSE
    LET node == stack[Len(stack)].node
        path == stack[Len(stack)].path
        rest == SubSeq(stack, 1, Len(stack) - 1)
    IN
    CASE node.type = "Leaf" ->
           <<[key |-> nibbles_to_bytes(path \o node.key_nibbles), value |-> node.value]>>
               \o iter_next(rest)
      [] node.type = "Extension" ->
           iter_next(Append(rest, [node |-> node.child,
                                   path |-> path \o node.key_nibbles]))
      [] node.type = "Branch" ->
           LET RECURSIVE push_children(_, _)
               push_children(st, i) ==
                   IF i < 0 THEN st
                   ELSE push_children(
                            IF node.children[i].is_some
                            THEN Append(st, [node |-> node.children[i].value,
                                             path |-> Append(path, i)])
                            ELSE st,
                            i - 1)
           IN iter_next(push_children(rest, 15))

\* ModifiedTrie::iter().collect()
trie_iter(root) ==
    IF root.is_some THEN iter_next(<<[node |-> root.value, path |-> <<>>]>>) ELSE <<>>

(***************************************************************************)
(* Value sets of the world-state model                                     *)
(***************************************************************************)
WsAddresses == {"a1", "a2"}
WsBalances == {0, 1}
WsNonces == {0, 1}
WsCodes == {<<>>, <<1>>}
StorageKeys == {"k1"}
StorageValues == {1}

(***************************************************************************)
(* AccountState                                                            *)
(***************************************************************************)
\* MockTrie::root_hash of a storage trie: the digest of the encoded pairs in
\* key order, i.e. a function of the stored map alone
storage_root_hash(storage) == Keccak256(storage)

AccountState_default ==
    [nonce |-> 0, balance |-> 0, storage_root |-> H256_zero,
     code_hash |-> H256_zero, code |-> <<>>, storage |-> EmptyMap]

update_storage_root(account) ==
    [account EXCEPT !.storage_root = storage_root_hash(account.storage)]

update_code_hash(account) ==
    [account EXCEPT !.code_hash = Keccak256(account.code)]

AccountState_new(code) ==
    update_code_hash([AccountState_default EXCEPT !.code = code])

\* Encodable for AccountState: the 4-item list; code and storage are left out
rlp_account(account) ==
    <<account.nonce, account.balance, account.storage_root, account.code_hash>>

(***************************************************************************)
(* WorldStateTrie: operators on ws = [inner, journal]                      *)
(***************************************************************************)
WorldStateTrie_new == [inner |-> EmptyMap, journal |-> None]

push_journal(ws, entry) ==
    IF ws.journal.is_some
    THEN [ws EXCEPT !.journal = Some(Append(ws.journal.value, entry))]
    ELSE ws

\* a checkpoint() that opens a fresh journal over an open one
checkpoint_never_panics(ws) == FALSE

\* the guard of checkpoint(): it panics when a journal is already open
checkpoint_panics(ws) == ws.journal.is_some

checkpoint(ws) == [ws EXCEPT !.journal = Some(<<>>)]

\* revert_journal_entry without the removal of a storage slot that was absent
revert_journal_entry_keeps_slot(in, entry) ==
    CASE entry.type = "BalanceChange" ->
           [in EXCEPT ![entry.address].balance = entry.old_value]
      [] entry.type = "NonceChange" ->
           [in EXCEPT ![entry.address].nonce = entry.old_value]
      [] entry.type = "StorageChange" ->
           LET account == in[entry.address]
               storage == IF entry.old_value.is_some
                          THEN map_insert(account.storage, entry.key, entry.old_value.value)
                          ELSE account.storage
           IN [in EXCEPT ![entry.address] =
                   update_storage_root([account EXCEPT !.storage = storage])]
      [] entry.type = "CodeChange" ->
           [in EXCEPT ![entry.address].code = entry.old_code,
                      ![entry.address].code_hash = entry.old_code_hash]
      [] entry.type = "AccountCreated" ->
           map_delete(in, entry.address)
      [] entry.type = "AccountDeleted" ->
           map_insert(in, entry.address, entry.old_account)

revert_journal_entry(in, entry) ==
    CASE entry.type = "BalanceChange" ->
           [in EXCEPT ![entry.address].balance = entry.old_value]
      [] entry.type = "NonceChange" ->
           [in EXCEPT ![entry.address].nonce = entry.old_value]
      [] entry.type = "StorageChange" ->
           LET account == in[entry.address]
               storage == IF entry.old_value.is_some
                          THEN map_insert(account.storage, entry.key, entry.old_value.value)
                          ELSE map_delete(account.storage, entry.key)
           IN [in EXCEPT ![entry.address] =
                   update_storage_root([account EXCEPT !.storage = storage])]
      [] entry.type = "CodeChange" ->
           [in EXCEPT ![entry.address].code = entry.old_code,
                      ![entry.address].code_hash = entry.old_code_hash]
      [] entry.type = "AccountCreated" ->
           map_delete(in, entry.address)
      [] entry.type = "AccountDeleted" ->
           map_insert(in, entry.address, entry.old_account)

RECURSIVE revert_all(_, _)
\* for entry in journal.iter().rev() { self.revert_journal_entry(entry) }
revert_all(in, entries) ==
    IF entries = <<>> THEN in
    ELSE revert_all(revert_journal_entry(in, entries[Len(entries)]),
                    SubSeq(entries, 1, Len(entries) - 1))

\* rollback() returns Err when no journal is open
rollback_fails(ws) == ~ws.journal.is_some

\* rollback(): without a journal nothing is changed
rollback(ws) ==
    IF ws.journal.is_some
    THEN [inner |-> revert_all(ws.inner, ws.journal.value), journal |-> None]
    ELSE ws

\* the guard of commit(): it panics when no journal is open
commit_panics(ws) == ~ws.journal.is_some

\* a commit that replays the journal before it drops it
commit_reverting(ws) ==
    [inner |-> revert_all(ws.inner, ws.journal.value), journal |-> None]

commit(ws) == [ws EXCEPT !.journal = None]

insert(ws, address, account) ==
    LET w == IF address \notin DOMAIN ws.inner
             THEN push_journal(ws, [type |-> "AccountCreated", address |-> address])
             ELSE push_journal(ws, [type |-> "AccountDeleted", address |-> address,
                                    old_account |-> ws.inner[address]])
    IN [w EXCEPT !.inner = map_insert(ws.inner, address, account)]

set_nonce(ws, address, nonce) ==
    LET old_nonce == ws.inner[address].nonce IN
    IF old_nonce # nonce
    THEN [push_journal(ws, [type |-> "NonceChange", address |-> address,
                            old_value |-> old_nonce])
            EXCEPT !.inner[address].nonce = nonce]
    ELSE ws

\* a set_balance that records and writes without comparing old and new
set_balance_uncompared(ws, address, balance) ==
    [push_journal(ws, [type |-> "BalanceChange", address |-> address,
                       old_value |-> ws.inner[address].balance])
        EXCEPT !.inner[address].balance = balance]

set_balance(ws, address, balance) ==
    LET old_balance == ws.inner[address].balance IN
    IF old_balance # balance
    THEN [push_journal(ws, [type |-> "BalanceChange", address |-> address,
                            old_value |-> old_balance])
            EXCEPT !.inner[address].balance = balance]
    ELSE ws

set_storage(ws, address, key, value) ==
    LET account == ws.inner[address]
        old_value == map_get(account.storage, key)
    IN IF old_value # Some(value)
       THEN [push_journal(ws, [type |-> "StorageChange", address |-> address,
                               key |-> key, old_value |-> old_value])
               EXCEPT !.inner[address] =
                   update_storage_root(
                       [account EXCEPT !.storage = map_insert(account.storage, key, value)])]
       ELSE ws

set_code(ws, address, code) ==
    LET account == ws.inner[address] IN
    IF account.code # code
    THEN [push_journal(ws, [type |-> "CodeChange", address |-> address,
                            old_code |-> account.code,
                            old_code_hash |-> account.code_hash])
            EXCEPT !.inner[address] = update_code_hash([account EXCEPT !.code = code])]
    ELSE ws

delete(ws, address) ==
    IF address \in DOMAIN ws.inner
    THEN [push_journal(ws, [type |-> "AccountDeleted", address |-> address,
                            old_account |-> ws.inner[address]])
            EXCEPT !.inner = map_delete(ws.inner, address)]
    ELSE ws

account_exists(in, address) == address \in DOMAIN in
get_nonce(in, address) ==
    IF address \in DOMAIN in THEN Some(in[address].nonce) ELSE None
get_balance(in, address) ==
    IF address \in DOMAIN in THEN Some(in[address].balance) ELSE None
get_code(in, address) ==
    IF address \in DOMAIN in THEN Some(in[address].code) ELSE None
get_storage(in, address, key) ==
    IF address \in DOMAIN in THEN map_get(in[address].storage, key) ELSE None

\* MockTrie::root_hash over the account map: the digest of (key, rlp(account))
\* in key order
root_hash(in) == Keccak256([a \in DOMAIN in |-> rlp_account(in[a])])

(***************************************************************************)
(* Specification SpecWS: a client driving one WorldStateTrie               *)
(***************************************************************************)
WS == [inner |-> inner, journal |-> journal]

NoSnap == [taken |-> FALSE]
NoBlock == [idle |-> TRUE]
NoCall == [result |-> "none"]
\* the trie variables of a run that uses no ModifiedTrie
NoTrie ==
    /\ trie = None
    /\ stored = EmptyMap
    /\ trieLast = [op |-> "none", panicked |-> FALSE]

\* room left in the explored journal
JournalRoom == journal.is_some => Len(journal.value) < MaxJournal

InitWS ==
    /\ inner = WorldStateTrie_new.inner
    /\ journal = WorldStateTrie_new.journal
    /\ snap = NoSnap
    /\ lastOp = "new"
    /\ block = NoBlock
    /\ call = NoCall
    /\ NoTrie
    /\ blocks = <<>>

\* a panic of checkpoint() or commit() ends the run, and with it the history
\* kept of the open checkpoint
WsRunning == lastOp \notin {"checkpoint panicked", "commit panicked"}

\* the effect of a mutating call on the variables
Mutated(w, op) ==
    /\ WsRunning
    /\ inner' = w.inner
    /\ journal' = w.journal
    /\ snap' = IF journal.is_some THEN snap ELSE NoSnap
    /\ lastOp' = op
    /\ UNCHANGED <<block, call>>
    /\ UNCHANGED <<trieVars, blocks>>

Insert(a, code) ==
    /\ JournalRoom
    /\ Mutated(insert(WS, a, AccountState_new(code)), "insert")

SetBalance(a, v) ==
    /\ JournalRoom
    /\ account_exists(inner, a)
    /\ Mutated(set_balance(WS, a, v), "set_balance")

SetNonce(a, n) ==
    /\ JournalRoom
    /\ account_exists(inner, a)
    /\ Mutated(set_nonce(WS, a, n), "set_nonce")

SetCode(a, c) ==
    /\ JournalRoom
    /\ account_exists(inner, a)
    /\ Mutated(set_code(WS, a, c), "set_code")

SetStorage(a, k, v) ==
    /\ JournalRoom
    /\ account_exists(inner, a)
    /\ Mutated(set_storage(WS, a, k, v), "set_storage")

Delete(a) ==
    /\ JournalRoom
    /\ Mutated(delete(WS, a), "delete")

Checkpoint ==
    /\ WsRunning
    /\ IF checkpoint_panics(WS)
       THEN /\ lastOp' = "checkpoint panicked"
            /\ snap' = NoSnap
            /\ UNCHANGED <<inner, journal>>
       ELSE /\ inner' = inner
            /\ journal' = checkpoint(WS).journal
            /\ snap' = [taken |-> TRUE, inner |-> inner]
            /\ lastOp' = "checkpoint"
    /\ UNCHANGED <<block, call>>
    /\ UNCHANGED <<trieVars, blocks>>

Rollback ==
    /\ WsRunning
    /\ inner' = rollback(WS).inner
    /\ journal' = rollback(WS).journal
    /\ IF rollback_fails(WS)
       THEN /\ snap' = snap
            /\ lastOp' = "rollback failed"
       ELSE /\ snap' = [taken |-> TRUE, inner |-> snap.inner, undone |-> journal.value]
            /\ lastOp' = "rollback"
    /\ UNCHANGED <<block, call>>
    /\ UNCHANGED <<trieVars, blocks>>

Commit ==
    /\ WsRunning
    /\ IF commit_panics(WS)
       THEN /\ lastOp' = "commit panicked"
            /\ snap' = NoSnap
            /\ UNCHANGED <<inner, journal>>
       ELSE /\ inner' = commit(WS).inner
            /\ journal' = commit(WS).journal
            /\ snap' = snap
            /\ lastOp' = "commit"
    /\ UNCHANGED <<block, call>>
    /\ UNCHANGED <<trieVars, blocks>>

NextWS ==
    \/ \E a \in WsAddresses, c \in WsCodes : Insert(a, c)
    \/ \E a \in WsAddresses, v \in WsBalances : SetBalance(a, v)
    \/ \E a \in WsAddresses, n \in WsNonces : SetNonce(a, n)
    \/ \E a \in WsAddresses, c \in WsCodes : SetCode(a, c)
    \/ \E a \in WsAddresses, k \in StorageKeys, v \in StorageValues : SetStorage(a, k, v)
    \/ \E a \in WsAddresses : Delete(a)
    \/ Checkpoint
    \/ Rollback
    \/ Commit

SpecWS == InitWS /\ [][NextWS]_vars

(***************************************************************************)
(* Claims on the journaled world state                                     *)
(***************************************************************************)
RolledBack == lastOp = "rollback"

\* the types of the journal records a rollback undid
UndoneTypes == {snap.undone[i].type : i \in DOMAIN snap.undone}

\* C1: after a rollback, root_hash() equals root_hash() immediately before
\* the checkpoint, for any mutating calls made in between.
C1_RollbackRestoresRoot ==
    RolledBack => root_hash(inner) = root_hash(snap.inner)

\* every getter of the world state, on every address and key
Observables(in) ==
    [a \in WsAddresses |->
        [exists |-> account_exists(in, a),
         balance |-> get_balance(in, a),
         nonce |-> get_nonce(in, a),
         code |-> get_code(in, a),
         storage |-> [k \in StorageKeys |-> get_storage(in, a, k)]]]

C18_JournalDiscipline ==
    [][/\ (lastOp' \in {"checkpoint", "checkpoint panicked"} /\ journal.is_some)
            => (lastOp' = "checkpoint panicked" /\ inner' = inner /\ journal' = journal)
       /\ (lastOp' \in {"commit", "commit panicked"} /\ ~journal.is_some)
            => (lastOp' = "commit panicked" /\ inner' = inner /\ journal' = journal)
       /\ (lastOp' \in {"rollback", "rollback failed"} /\ ~journal.is_some)
            => (lastOp' = "rollback failed" /\ inner' = inner /\ journal' = journal)
      ]_vars

\* checkpoint() failed on a journal that holds records
C18_Witness ==
    /\ lastOp = "checkpoint panicked"
    /\ journal.is_some
    /\ Len(journal.value) = MaxJournal
    /\ inner # EmptyMap

Setters == {"set_balance", "set_nonce", "set_code", "set_storage"}
Mutators == Setters \cup {"insert", "delete"}

\* the number of records of a journal, none when it is not open
journal_len(j) == IF j.is_some THEN Len(j.value) ELSE 0

\* a mutating call neither opens nor closes the journal, keeps its records
\* and appends `added` records
Appends(added) ==
    /\ journal'.is_some = journal.is_some
    /\ journal_len(journal') = journal_len(journal) + added
    /\ journal.is_some => SubSeq(journal'.value, 1, Len(journal.value)) = journal.value

\* C19: a mutating call appends exactly one journal record if it changes
\* state and a journal is open, and none otherwise; a setter whose new value
\* equals the current one changes neither the account nor the journal.
C19_OneRecordPerChange ==
    [][lastOp' \in Mutators =>
          Appends(IF journal.is_some /\ inner' # inner THEN 1 ELSE 0)
      ]_vars

\* C19, amended: insert() records the account it replaces even when the new
\* account equals it; every other mutating call appends one record if it
\* changes state and a journal is open, and none otherwise.
C19_OneRecordPerChangeOrInsert ==
    [][lastOp' \in Mutators =>
          Appends(IF journal.is_some /\ (inner' # inner \/ lastOp' = "insert")
                  THEN 1 ELSE 0)
      ]_vars

\* with a journal open, a setter changed an account and was recorded, then
\* an insert of an account equal to the stored one was recorded too
C19_Witness ==
    /\ lastOp = "insert"
    /\ journal.is_some
    /\ Len(journal.value) = 2
    /\ journal.value[1].type \in {"BalanceChange", "NonceChange", "CodeChange",
                                  "StorageChange"}
    /\ journal.value[2].type = "AccountDeleted"
    /\ journal.value[2].old_account = inner[journal.value[2].address]

\* C21: commit() closes the journal and alters no account: root_hash and
\* every getter return after it what they returned before it, and a rollback()
\* that follows without a new checkpoint fails and undoes nothing.
C21_CommitKeepsAccounts ==
    [][/\ lastOp' = "commit" =>
            /\ ~journal'.is_some
            /\ inner' = inner
            /\ root_hash(inner') = root_hash(inner)
            /\ Observables(inner') = Observables(inner)
       /\ (lastOp = "commit" /\ lastOp' \in {"rollback", "rollback failed"}) =>
            /\ lastOp' = "rollback failed"
            /\ inner' = inner
            /\ ~journal'.is_some
      ]_vars

\* commit() has just returned and the accounts differ from what they were at
\* the checkpoint: there are committed changes
C21_Witness ==
    /\ lastOp = "commit"
    /\ snap.taken
    /\ inner # snap.inner
    /\ ~journal.is_some

\* C20: in every reachable state every account's code_hash is the Keccak-256
\* of its code and its storage_root is the root hash of its storage trie.
C20_DerivedFieldsDerived ==
    \A a \in DOMAIN inner :
        /\ inner[a].code_hash = Keccak256(inner[a].code)
        /\ inner[a].storage_root = storage_root_hash(inner[a].storage)


(***************************************************************************)
(* Transactions (Transaction1or2) and blocks                               *)
(***************************************************************************)
\* Either<U256, (U256, U256)>
Left(gas_price) == [is_left |-> TRUE, gas_price |-> gas_price]
Right(max_priority_fee, max_fee) ==
    [is_left |-> FALSE, max_priority_fee |-> max_priority_fee, max_fee |-> max_fee]

\* U256 +, * and - panic when the result leaves 0 .. 2^256 - 1
u256_overflows(x) == x > U256Max \/ x < 0

is_creation(tx) == ~tx.to.is_some

\* the two operands of the min in effective_gas_price
fee_pair(tx) ==
    IF tx.gas_price_or_dynamic_fee.is_left
    THEN <<tx.gas_price_or_dynamic_fee.gas_price, tx.gas_price_or_dynamic_fee.gas_price>>
    ELSE <<tx.gas_price_or_dynamic_fee.max_priority_fee, tx.gas_price_or_dynamic_fee.max_fee>>

effective_gas_price_panics(tx, base_fee) == u256_overflows(fee_pair(tx)[1] + base_fee)

effective_gas_price(tx, base_fee) ==
    LET a == fee_pair(tx)[1] + base_fee
        b == fee_pair(tx)[2]
    IN IF a < b THEN a ELSE b

\* a word count that drops the last, partly filled word
to_word_size_floor(size) == size \div 32

to_word_size(size) == IF size % 32 = 0 THEN size \div 32 ELSE size \div 32 + 1

RECURSIVE sum_seq(_)
sum_seq(q) == IF q = <<>> THEN 0 ELSE q[1] + sum_seq(Tail(q))

\* tx.data is kept as its count of zero and non-zero bytes, the only things
\* the lifecycle reads of it; tx.access_list as the number of storage keys
\* of each item
data_len(tx) == tx.data.zeros + tx.data.non_zeros

intrinsic_gas(tx) ==
    LET base == IF is_creation(tx) THEN 53000 ELSE 21000
        bytes == tx.data.non_zeros * 16 + tx.data.zeros * 4
        words == IF is_creation(tx) THEN 2 * to_word_size(data_len(tx)) ELSE 0
        access_list_gas == Len(tx.access_list) * 2400
        storage_key_gas == sum_seq([i \in DOMAIN tx.access_list |-> tx.access_list[i] * 1900])
    IN base + bytes + words + access_list_gas + storage_key_gas

\* largest init code accepted by check_valid_transaction
MaxInitCodeLen == 49152

Ok == [kind |-> "Ok"]
Err(reason) == [kind |-> "Err", reason |-> reason]
Panic(reason) == [kind |-> "Panic", reason |-> reason]

\* a value returned by a function that can also panic
Value(v) == [kind |-> "Ok", value |-> v]

check_valid_transaction(tx, in, blk) ==
    LET sender == tx.sender
        base_fee == blk.header.base_fee
        price == effective_gas_price(tx, base_fee)
    IN
    IF ~get_nonce(in, sender).is_some THEN Err("sender not found")
    ELSE IF get_nonce(in, sender).value # tx.nonce THEN Err("nonce mismatch")
    ELSE IF get_code(in, sender).value # <<>> THEN Err("sender is a EOA")
    ELSE IF tx.gas_limit < intrinsic_gas(tx) THEN Err("gas limit too low")
    ELSE IF effective_gas_price_panics(tx, base_fee) THEN Panic("arithmetic operation overflow")
    ELSE IF u256_overflows(price * tx.gas_limit) THEN Panic("arithmetic operation overflow")
    ELSE IF u256_overflows(price * tx.gas_limit + tx.value) THEN Panic("arithmetic operation overflow")
    ELSE IF get_balance(in, sender).value < price * tx.gas_limit + tx.value
         THEN Err("insufficient balance")
    ELSE IF tx.tx_type = 2
            /\ tx.gas_price_or_dynamic_fee.max_fee < tx.gas_price_or_dynamic_fee.max_priority_fee
         THEN Err("max fee per gas less than max priority fee")
    ELSE IF tx.tx_type = 2 /\ tx.gas_price_or_dynamic_fee.max_fee < base_fee
         THEN Err("max fee per gas too low")
    ELSE IF is_creation(tx) /\ data_len(tx) > MaxInitCodeLen THEN Err("data length too long")
    ELSE IF u256_overflows(blk.header.gas_limit - blk.header.gas_used)
         THEN Panic("arithmetic operation overflow")
    ELSE IF tx.gas_limit > blk.header.gas_limit - blk.header.gas_used
         THEN Err("gas limit exceeds block gas limit")
    ELSE Ok


(***************************************************************************)
(* The execution machine: Machine, Context, Substate, JUMP_TABLE, run      *)
(***************************************************************************)
STOP == 0
ADD == 1
CREATE == 240
CALL == 241

\* largest evaluation stack and deepest call
StackLimit == 1024
CallCreateDepth == 1024

Operation(opcode, constant_gas, min_stack, max_stack) ==
    [opcode |-> opcode, constant_gas |-> constant_gas,
     min_stack |-> min_stack, max_stack |-> max_stack]

\* no entry has a dynamic_gas or a memory_size function, and STOP has no entry
JUMP_TABLE ==
    [op \in {ADD, CALL, CREATE} |->
        CASE op = ADD -> Operation(ADD, 3, 2, 1024)
          [] op = CALL -> Operation(CALL, 100, 7, 1024)
          [] op = CREATE -> Operation(CREATE, 32000, 3, 1024)]

get_opcode(evm, context) ==
    IF evm.pc >= Len(context.code) THEN STOP ELSE context.code[evm.pc + 1]

\* the outcome of one operation or of a whole frame
Outcome(result, evm, ws, substate) ==
    [result |-> result, evm |-> evm, ws |-> ws, substate |-> substate]

\* the stack grows at its end: stack_pop takes the last word
stack_top(evm) == evm.stack[Len(evm.stack)]
stack_popped(evm) == [evm EXCEPT !.stack = SubSeq(evm.stack, 1, Len(evm.stack) - 1)]

\* Machine::stack_pop: the last word, or StackUnderflow
stack_pop(evm) ==
    IF evm.stack = <<>> THEN [result |-> Err("StackUnderflow"), evm |-> evm]
    ELSE [result |-> Value(stack_top(evm)), evm |-> stack_popped(evm)]

stack_push(evm, val) ==
    IF Len(evm.stack) >= StackLimit THEN [result |-> Err("StackOverflow"), evm |-> evm]
    ELSE [result |-> Ok, evm |-> [evm EXCEPT !.stack = Append(evm.stack, val)]]

op_add(evm, context, ws, substate) ==
    IF Len(evm.stack) < 2 THEN Outcome(Err("StackUnderflow"), evm, ws, substate)
    ELSE LET a == stack_top(evm)
             e1 == stack_popped(evm)
             b == stack_top(e1)
             e2 == stack_popped(e1)
             pushed == stack_push(e2, (a + b) % (U256Max + 1))
         IN Outcome(pushed.result, pushed.evm, ws, substate)

\* the address derived from Keccak256(caller ++ nonce), collision free
create_address(caller, nonce) == "create(" \o caller \o "," \o ToString(nonce) \o ")"

op_create(evm, context, ws, substate) ==
    IF Len(evm.stack) < 3 THEN Outcome(Err("StackUnderflow"), evm, ws, substate)
    ELSE
    LET value == stack_top(evm)
        e1 == stack_popped(evm)
        offset == stack_top(e1)
        e2 == stack_popped(e1)
        size == stack_top(e2)
        e3 == stack_popped(e2)
        caller == IF context.contract_addr.is_some THEN context.contract_addr.value
                  ELSE context.sender
        caller_balance == IF account_exists(ws.inner, caller)
                          THEN ws.inner[caller].balance ELSE 0
    IN
    IF evm.call_depth >= CallCreateDepth THEN Outcome(Err("CallDepthExceeded"), e3, ws, substate)
    ELSE IF value > caller_balance THEN Outcome(Err("InsufficientBalance"), e3, ws, substate)
    ELSE IF offset + size > Len(evm.memory) THEN Outcome(Err("MemoryOutOfBounds"), e3, ws, substate)
    ELSE
    LET init_code == SubSeq(evm.memory, offset + 1, offset + size)
        nonce == IF account_exists(ws.inner, caller) THEN ws.inner[caller].nonce ELSE 0
        contract_addr == create_address(caller, nonce)
        w1 == insert(ws, contract_addr, AccountState_new(init_code))
    IN
    \* set_nonce unwraps the caller's account
    IF ~account_exists(w1.inner, caller) THEN Outcome(Panic("unwrap on None"), e3, w1, substate)
    ELSE
    LET w2 == set_nonce(w1, caller, nonce + 1)
        w3 == IF value > 0
              THEN set_balance(set_balance(w2, caller, caller_balance - value),
                               contract_addr, w2.inner[contract_addr].balance + value)
              ELSE w2
        w4 == set_code(w3, contract_addr, init_code)
        pushed == stack_push(e3, contract_addr)
    IN Outcome(pushed.result, pushed.evm, w4, substate)

\* op_call pops the gas and callee words and copies the 32 bytes of
\* callee.to_big_endian() into bytes[20 - 32 ..]: the index underflows
op_call(evm, context, ws, substate) ==
    IF Len(evm.stack) < 2 THEN Outcome(Err("StackUnderflow"), evm, ws, substate)
    ELSE Outcome(Panic("attempt to subtract with overflow"),
                 stack_popped(stack_popped(evm)), ws, substate)

execute(opcode, evm, context, ws, substate) ==
    CASE opcode = ADD -> op_add(evm, context, ws, substate)
      [] opcode = CREATE -> op_create(evm, context, ws, substate)
      [] opcode = CALL -> op_call(evm, context, ws, substate)

RECURSIVE run(_, _, _, _)
\* Machine::run: the loop is left only through an error (or a panic)
run(evm, context, ws, substate) ==
    LET opcode == get_opcode(evm, context) IN
    IF opcode \notin DOMAIN JUMP_TABLE THEN Outcome(Err("InvalidOpcode"), evm, ws, substate)
    ELSE
    LET operation == JUMP_TABLE[opcode] IN
    IF Len(evm.stack) < operation.min_stack THEN Outcome(Err("StackUnderflow"), evm, ws, substate)
    ELSE IF Len(evm.stack) > operation.max_stack THEN Outcome(Err("StackOverflow"), evm, ws, substate)
    ELSE IF operation.constant_gas > evm.gas_remaining THEN Outcome(Err("OutOfGas"), evm, ws, substate)
    ELSE
    LET charged == [evm EXCEPT !.gas_remaining = @ - operation.constant_gas]
        output == execute(opcode, charged, context, ws, substate)
    IN IF output.result.kind # "Ok" THEN output
       ELSE run([output.evm EXCEPT !.pc = @ + 1], context, output.ws, output.substate)


(***************************************************************************)
(* tx_execute                                                              *)
(***************************************************************************)
\* logs carry the bloom bits of their address and topics
bloom_logs(logs) == UNION {logs[i].bits : i \in DOMAIN logs}

Receipt(tx_type, status_code, cumulative_gas_used, logs, logs_bloom) ==
    [tx_type |-> tx_type, status_code |-> status_code,
     cumulative_gas_used |-> cumulative_gas_used, logs |-> logs,
     logs_bloom |-> logs_bloom]

\* what a call of tx_execute leaves behind: its result, the world state, the
\* block, and the frame it ran (None when no frame was built)
TxOutcome(result, ws, blk, frame) ==
    [result |-> result, ws |-> ws, block |-> blk, frame |-> frame]

\* value == 0 && !is_creation() && !account_exists(to)
early_return_taken(tx, in) ==
    tx.value = 0 /\ ~is_creation(tx) /\ ~account_exists(in, tx.to.value)

\* an early return that first creates the recipient account
early_return_touching(tx, ws, blk) ==
    TxOutcome(Ok, insert(ws, tx.to.value, AccountState_new(<<>>)), blk, None)

\* return Ok(()) before anything is written
early_return(tx, ws, blk) == TxOutcome(Ok, ws, blk, None)

RECURSIVE delete_self_destructed(_, _)
\* for addr in substate.self_destruct { state.delete(&addr) }
delete_self_destructed(ws, addrs) ==
    IF addrs = <<>> THEN ws
    ELSE delete_self_destructed(delete(ws, addrs[1]), Tail(addrs))

is_empty_account(in, addr) ==
    /\ in[addr].balance = 0
    /\ in[addr].nonce = 0
    /\ in[addr].code = <<>>

RECURSIVE prune_touched(_, _)
\* for addr in substate.touched_accounts { delete the account if it is empty }
prune_touched(ws, addrs) ==
    IF addrs = <<>> THEN ws
    ELSE IF ~account_exists(ws.inner, addrs[1]) THEN prune_touched(ws, Tail(addrs))
    ELSE IF is_empty_account(ws.inner, addrs[1])
         THEN prune_touched(delete(ws, addrs[1]), Tail(addrs))
    ELSE prune_touched(ws, Tail(addrs))

\* the refund credited to the sender: the whole sum is capped at gas_limit
refund_of(gas_remaining, price, refund_fee, gas_limit) ==
    LET refund == gas_remaining * price + refund_fee
    IN IF refund > gas_limit THEN gas_limit ELSE refund

\* the end of tx_execute: refund, self-destructed and touched accounts, receipt
tx_settle(tx, blk, price, output, frame) ==
    IF output.result.kind = "Panic" THEN TxOutcome(output.result, output.ws, blk, frame)
    ELSE
    LET sender == tx.sender
        refund == refund_of(output.evm.gas_remaining, price,
                            output.substate.refund_fee, tx.gas_limit)
    IN
    IF u256_overflows(output.ws.inner[sender].balance + refund)
    THEN TxOutcome(Panic("arithmetic operation overflow"), output.ws, blk, frame)
    ELSE
    LET w4 == set_balance(output.ws, sender, output.ws.inner[sender].balance + refund)
        w5 == delete_self_destructed(w4, output.substate.self_destruct)
        w6 == prune_touched(w5, output.substate.touched_accounts)
        receipt == Receipt(tx.tx_type,
                           IF output.result.kind = "Ok" THEN 1 ELSE 0,
                           tx.gas_limit - output.evm.gas_remaining,
                           output.substate.logs,
                           bloom_logs(output.substate.logs))
    IN TxOutcome(Ok, w6, [blk EXCEPT !.receipts = Append(@, receipt)], frame)

\* the frame of the transaction: Machine, Context and Substate, then run
tx_frame(tx, w3, blk, price) ==
    LET sender == tx.sender
        evm == [memory |-> <<>>, stack |-> <<>>, pc |-> 0, call_depth |-> 0,
                gas_remaining |-> tx.gas_limit]
        code == IF tx.to.is_some /\ account_exists(w3.inner, tx.to.value)
                THEN w3.inner[tx.to.value].code ELSE <<>>
        context == [contract_addr |-> tx.to, origin_sender |-> sender,
                    gas_price |-> price, input |-> tx.data, sender |-> sender,
                    value |-> tx.value, code |-> code, depth |-> 0,
                    allow_writes |-> TRUE]
        substate == [self_destruct |-> <<>>, logs |-> <<>>, touched_accounts |-> <<>>,
                     refund_fee |-> 0, access_list_accounts |-> <<>>,
                     access_list_storage |-> <<>>]
        output == run(evm, context, w3, substate)
        frame == Some([gas_start |-> evm.gas_remaining,
                       gas_remaining |-> output.evm.gas_remaining,
                       refund_fee |-> output.substate.refund_fee,
                       code |-> code,
                       run_result |-> output.result])
    IN tx_settle(tx, blk, price, output, frame)

\* the sender pays gas_limit * price up front, then the checkpoint is opened
tx_charge(tx, w1, blk, price) ==
    LET sender == tx.sender
        cost == tx.gas_limit * price
    IN
    IF u256_overflows(w1.inner[sender].balance - cost)
    THEN TxOutcome(Panic("arithmetic operation overflow"), w1, blk, None)
    ELSE
    LET w2 == set_balance(w1, sender, w1.inner[sender].balance - cost) IN
    IF checkpoint_panics(w2) THEN TxOutcome(Panic("Checkpoint already exists"), w2, blk, None)
    ELSE tx_frame(tx, checkpoint(w2), blk, price)

tx_execute(tx, ws, blk) ==
    LET valid == check_valid_transaction(tx, ws.inner, blk) IN
    IF valid.kind # "Ok" THEN TxOutcome(valid, ws, blk, None)
    ELSE IF early_return_taken(tx, ws.inner) THEN early_return(tx, ws, blk)
    ELSE tx_charge(tx, set_nonce(ws, tx.sender, tx.nonce + 1), blk,
                   effective_gas_price(tx, blk.header.base_fee))

(***************************************************************************)
(* Specification SpecTx: transactions executed one after another on one    *)
(* world state and one block                                               *)
(***************************************************************************)
\* an account as build_world_state_from_test builds it: both hashes derived
account_from_test(nonce, balance, code, storage) ==
    update_storage_root(update_code_hash(
        [nonce |-> nonce, balance |-> balance, storage_root |-> H256_zero,
         code_hash |-> H256_zero, code |-> code, storage |-> storage]))

Beneficiary == "a4"
SenderBalance == 1000000
BlockGasLimit == 300000

\* a1: a funded account without code; a2: an account with or without code;
\* a3: no account; a4: the block's beneficiary
TxContractCodes == {<<>>, <<ADD>>, <<STOP>>}
TxWorld(code) ==
    [a \in {"a1", "a2", "a4"} |->
        CASE a = "a1" -> account_from_test(0, SenderBalance, <<>>, EmptyMap)
          [] a = "a2" -> account_from_test(0, 0, code, EmptyMap)
          [] a = "a4" -> account_from_test(0, 5, <<>>, EmptyMap)]

TxBlockGasUsed == {0, 290000, BlockGasLimit + 1}
TxBlock(gas_used) ==
    [header |-> [beneficiary |-> Beneficiary, base_fee |-> 1,
                 gas_limit |-> BlockGasLimit, gas_used |-> gas_used],
     receipts |-> <<>>]

NoData == [zeros |-> 0, non_zeros |-> 0]
LongData == [zeros |-> MaxInitCodeLen + 1, non_zeros |-> 0]

AllTx ==
    [tx_type : {1, 2},
     sender : {"a1", "a2", "a3"},
     nonce : {0, 1},
     gas_limit : {20999, 21000, BlockGasLimit},
     to : {None, Some("a2"), Some("a3")},
     value : {0, 1, U256Max},
     data : {NoData, LongData},
     access_list : {<<>>},
     gas_price_or_dynamic_fee : {Left(2), Right(1, 3), Right(3, 1), Right(0, 0)}]

\* how many fields of a transaction leave the plain case
Unusual(tx) ==
    (IF tx.sender # "a1" THEN 1 ELSE 0)
    + (IF tx.gas_limit = 20999 THEN 1 ELSE 0)
    + (IF tx.value = U256Max THEN 1 ELSE 0)
    + (IF tx.data # NoData THEN 1 ELSE 0)
    + (IF tx.gas_price_or_dynamic_fee \in {Right(3, 1), Right(0, 0)} THEN 1 ELSE 0)

\* well-formed transactions (type 1 carries a gas price, type 2 a fee pair)
\* that leave the plain case in at most one field
TxSet ==
    {tx \in AllTx :
        /\ (tx.tx_type = 1) = tx.gas_price_or_dynamic_fee.is_left
        /\ Unusual(tx) <= 1}

InitTx ==
    /\ inner \in {TxWorld(code) : code \in TxContractCodes}
    /\ journal = None
    /\ snap = NoSnap
    /\ lastOp = "new"
    /\ block \in {TxBlock(g) : g \in TxBlockGasUsed}
    /\ call = NoCall
    /\ NoTrie
    /\ blocks = <<>>

\* one call of tx_execute; a panic ends the program
TxExecute(tx) ==
    /\ call.result # "Panic"
    /\ LET o == tx_execute(tx, WS, block) IN
        /\ inner' = o.ws.inner
        /\ journal' = o.ws.journal
        /\ block' = o.block
        /\ call' = [result |-> o.result.kind, tx |-> tx,
                    pre |-> [inner |-> inner, journal |-> journal, block |-> block],
                    frame |-> o.frame]
    /\ UNCHANGED <<snap, lastOp>>
    /\ UNCHANGED <<trieVars, blocks>>

NextTx == \E tx \in TxSet : TxExecute(tx)

SpecTx == InitTx /\ [][NextTx]_vars


(***************************************************************************)
(* Claims on tx_execute                                                    *)
(***************************************************************************)
Called == call.result # "none"
Returned == call.result \in {"Ok", "Err"}
\* the call built a frame, ran it and returned Ok
Executed == call.result = "Ok" /\ call.frame.is_some

PreHeader == call.pre.block.header
CallPrice == effective_gas_price(call.tx, PreHeader.base_fee)
\* gas_limit less the gas the frame had left
FrameGasUsed == call.tx.gas_limit - call.frame.value.gas_remaining
LastReceipt == block.receipts[Len(block.receipts)]

\* C2: whenever tx_execute returns, the world state has no open journal.
C2_CheckpointReleased == Returned => ~journal.is_some

\* the validity rules, in unbounded arithmetic
FailsValidityRule(tx, in, header) ==
    \/ ~account_exists(in, tx.sender)
    \/ in[tx.sender].nonce # tx.nonce
    \/ in[tx.sender].code # <<>>
    \/ tx.gas_limit < intrinsic_gas(tx)
    \/ in[tx.sender].balance
          < effective_gas_price(tx, header.base_fee) * tx.gas_limit + tx.value
    \/ /\ tx.tx_type = 2
       /\ \/ tx.gas_price_or_dynamic_fee.max_fee < tx.gas_price_or_dynamic_fee.max_priority_fee
          \/ tx.gas_price_or_dynamic_fee.max_fee < header.base_fee
    \/ is_creation(tx) /\ data_len(tx) > MaxInitCodeLen
    \/ tx.gas_limit > header.gas_limit - header.gas_used

NothingChanged ==
    /\ inner = call.pre.inner
    /\ journal = call.pre.journal
    /\ block.receipts = call.pre.block.receipts

\* C4: a transaction that fails a validity rule makes tx_execute return an
\* error and leaves every account, the journal and the receipts as they were.
C4_InvalidTxRejected ==
    (Called /\ FailsValidityRule(call.tx, call.pre.inner, PreHeader))
        => (call.result = "Err" /\ NothingChanged)

\* C5: when tx_execute returns Ok the sender's nonce is tx.nonce + 1.
C5_NonceBumped ==
    call.result = "Ok" => get_nonce(inner, call.tx.sender) = Some(call.tx.nonce + 1)

\* the empty-to-empty case: a valid transaction of value 0, gas_limit >= 21000,
\* no data, to an address without an account
EmptyToEmpty ==
    /\ Called
    /\ check_valid_transaction(call.tx, call.pre.inner, call.pre.block).kind = "Ok"
    /\ call.tx.value = 0
    /\ call.tx.gas_limit >= 21000
    /\ call.tx.data = NoData
    /\ call.tx.to.is_some
    /\ ~account_exists(call.pre.inner, call.tx.to.value)

\* C6: the empty-to-empty transaction changes nothing of the world state but
\* the sender's nonce and, by a gas deduction, the sender's balance, and no
\* account exists at `to` afterwards.
C6_EmptyToEmptyFrame ==
    EmptyToEmpty =>
        LET sender == call.tx.sender IN
        /\ DOMAIN inner = DOMAIN call.pre.inner
        /\ \A a \in DOMAIN inner \ {sender} : inner[a] = call.pre.inner[a]
        /\ [inner[sender] EXCEPT !.nonce = 0, !.balance = 0]
              = [call.pre.inner[sender] EXCEPT !.nonce = 0, !.balance = 0]
        /\ inner[sender].nonce \in {call.tx.nonce, call.tx.nonce + 1}
        /\ inner[sender].balance <= call.pre.inner[sender].balance
        /\ call.pre.inner[sender].balance - inner[sender].balance
              <= call.tx.gas_limit * CallPrice
        /\ ~account_exists(inner, call.tx.to.value)

\* an empty-to-empty transaction was executed and returned Ok
C6_Witness == EmptyToEmpty /\ call.result = "Ok" /\ call.tx.gas_limit > 21000

\* C7: a call that returns Ok appends exactly one receipt, carrying the
\* transaction's tx_type; a call that returns an error appends none.
C7_OneReceiptPerOk ==
    /\ call.result = "Ok" =>
          /\ Len(block.receipts) = Len(call.pre.block.receipts) + 1
          /\ SubSeq(block.receipts, 1, Len(call.pre.block.receipts)) = call.pre.block.receipts
          /\ LastReceipt.tx_type = call.tx.tx_type
    /\ call.result = "Err" => block.receipts = call.pre.block.receipts

\* code that runs without raising an exception: nothing, or a leading STOP
RaisesNoException(code) == code = <<>> \/ code[1] = STOP

\* C8: a frame whose program counter reaches the end of the code halts
\* normally, so a message call whose execution raises no exception (a plain
\* transfer to an account with empty code) gets status_code 1.
C8_NormalHaltStatus ==
    (Executed /\ call.tx.to.is_some /\ RaisesNoException(call.frame.value.code))
        => LastReceipt.status_code = 1

Min(a, b) == IF a < b THEN a ELSE b

\* C9: the sender's net gas payment is gas_used * effective_gas_price less the
\* refund counter capped at gas_used / 5 (stated for transactions of value 0,
\* which debit the sender for gas only).
C9_NetGasPayment ==
    (Executed /\ call.tx.value = 0) =>
        call.pre.inner[call.tx.sender].balance - inner[call.tx.sender].balance
            = FrameGasUsed * CallPrice
                - Min(call.frame.value.refund_fee, FrameGasUsed \div 5)

\* the gas a transaction used: its intrinsic gas and the gas its frame spent
TxGasUsed == intrinsic_gas(call.tx) + FrameGasUsed

\* C10: after an executed transaction the beneficiary's balance has grown by
\* (effective_gas_price - base_fee) * gas_used.
C10_BeneficiaryCredited ==
    Executed =>
        inner[PreHeader.beneficiary].balance
            = call.pre.inner[PreHeader.beneficiary].balance
                + (CallPrice - PreHeader.base_fee) * TxGasUsed

\* C11: the top-level frame starts with gas_remaining = gas_limit less the
\* intrinsic gas, so the gas a transaction is recorded to have used is never
\* less than its intrinsic gas.
C11_FrameStartsAfterIntrinsic ==
    Executed =>
        /\ call.frame.value.gas_start = call.tx.gas_limit - intrinsic_gas(call.tx)
        /\ LastReceipt.cumulative_gas_used >= intrinsic_gas(call.tx)

\* C38: gas accumulates across the transactions of a block: after an executed
\* transaction block.header.gas_used has grown by the gas the transaction
\* used, and the receipt's cumulative_gas_used is that running total.
C38_GasAccumulates ==
    Executed =>
        /\ block.header.gas_used = PreHeader.gas_used + TxGasUsed
        /\ LastReceipt.cumulative_gas_used = block.header.gas_used

\* C39: transaction validation never aborts on arithmetic: for all prices,
\* fees, values, base fees and block gas figures check_valid_transaction
\* returns Ok or an error value.
C39_ValidationNeverAborts ==
    Called =>
        check_valid_transaction(call.tx, call.pre.inner, call.pre.block).kind \in {"Ok", "Err"}


(***************************************************************************)
(* Specification SpecTrie: a client driving one ModifiedTrie               *)
(***************************************************************************)
\* Vec<u8> order: lexicographic, a proper prefix first
RECURSIVE key_less(_, _)
key_less(a, b) ==
    IF b = <<>> THEN FALSE
    ELSE IF a = <<>> THEN TRUE
    ELSE IF a[1] # b[1] THEN a[1] < b[1]
    ELSE key_less(Tail(a), Tail(b))

\* the keys of a set in ascending order
RECURSIVE ascending(_)
ascending(keys) ==
    IF keys = {} THEN <<>>
    ELSE LET least == CHOOSE k \in keys : \A other \in keys \ {k} : key_less(k, other)
         IN <<least>> \o ascending(keys \ {least})

TrieRunning == ~trieLast.panicked

InitTrie ==
    /\ trie = ModifiedTrie_new
    /\ stored = EmptyMap
    /\ trieLast = [op |-> "new", panicked |-> FALSE, inserts_only |-> TRUE,
                   deletes_stored |-> TRUE]
    /\ inner = EmptyMap
    /\ journal = None
    /\ snap = NoSnap
    /\ lastOp = "new"
    /\ block = NoBlock
    /\ call = NoCall
    /\ blocks = <<>>

TrieInsert(k, v) ==
    /\ TrieRunning
    /\ trie' = trie_insert(trie, k, v)
    /\ stored' = map_insert(stored, k, v)
    /\ trieLast' = [op |-> "insert", key |-> k, was_stored |-> k \in DOMAIN stored,
                    pre |-> trie, pre_inserts_only |-> trieLast.inserts_only,
                    panicked |-> FALSE,
                    inserts_only |-> trieLast.inserts_only,
                    deletes_stored |-> trieLast.deletes_stored]
    /\ UNCHANGED <<wsVars, blocks>>

TrieDelete(k) ==
    /\ TrieRunning
    /\ LET r == trie_delete(trie, k) IN
        /\ trie' = r.root
        /\ trieLast' = [op |-> "delete", key |-> k, was_stored |-> k \in DOMAIN stored,
                        pre |-> trie, pre_stored |-> stored,
                        undoes |-> IF /\ trieLast.op = "insert"
                                      /\ trieLast.key = k
                                      /\ ~trieLast.was_stored
                                      /\ trieLast.pre_inserts_only
                                   THEN Some(trieLast.pre) ELSE None,
                        panicked |-> r.panicked,
                        inserts_only |-> FALSE,
                        deletes_stored |-> trieLast.deletes_stored /\ k \in DOMAIN stored]
    /\ stored' = map_delete(stored, k)
    /\ UNCHANGED <<wsVars, blocks>>

TrieGet(k) ==
    /\ TrieRunning
    /\ LET r == trie_get(trie, k) IN
        trieLast' = [op |-> "get", key |-> k, was_stored |-> k \in DOMAIN stored,
                     result |-> r, panicked |-> r.panicked,
                     inserts_only |-> trieLast.inserts_only,
                     deletes_stored |-> trieLast.deletes_stored]
    /\ UNCHANGED <<trie, stored>>
    /\ UNCHANGED <<wsVars, blocks>>

TrieIter ==
    /\ TrieRunning
    /\ trieLast' = [op |-> "iter", result |-> trie_iter(trie), panicked |-> FALSE,
                    inserts_only |-> trieLast.inserts_only,
                    deletes_stored |-> trieLast.deletes_stored]
    /\ UNCHANGED <<trie, stored>>
    /\ UNCHANGED <<wsVars, blocks>>

NextTrie ==
    \/ \E k \in TrieKeys, v \in TrieValues : TrieInsert(k, v)
    \/ \E k \in TrieKeys : TrieDelete(k)
    \/ \E k \in TrieKeys : TrieGet(k)
    \/ TrieIter

SpecTrie == InitTrie /\ [][NextTrie]_vars

(***************************************************************************)
(* Claims on the trie                                                      *)
(***************************************************************************)
RECURSIVE insert_all(_, _, _)
\* the trie built by inserting the entries of a map, key by key, in an order
insert_all(root, map, order) ==
    IF order = <<>> THEN root
    ELSE insert_all(trie_insert(root, order[1], map[order[1]]), map, Tail(order))

\* C12: inserting the entries of a finite map into an empty trie in any
\* order produces the same trie and the same root_hash (here: the trie that
\* the inserts made so far have built is the one built in ascending key order).
C12_InsertOrderIndependent ==
    (TrieRunning /\ trieLast.inserts_only) =>
        LET sorted == insert_all(ModifiedTrie_new, stored, ascending(DOMAIN stored)) IN
        /\ trie = sorted
        /\ trie_root_hash(trie) = trie_root_hash(sorted)

\* every key was inserted, the last one by the last operation, nothing deleted
C12_Witness ==
    /\ trieLast.op = "insert"
    /\ trieLast.inserts_only
    /\ ~trieLast.was_stored
    /\ DOMAIN stored = TrieKeys

\* C13: on a trie reached by inserts, insert(k, v) of a key that is not
\* stored followed by delete(k) yields the root_hash the trie had before the
\* insert.
C13_InsertDeleteRestoresRoot ==
    (trieLast.op = "delete" /\ trieLast.undoes.is_some) =>
        /\ ~trieLast.panicked
        /\ trie_root_hash(trie) = trie_root_hash(trieLast.undoes.value)

RECURSIVE well_formed(_)
\* no extension without key nibbles, no extension above an extension, no
\* branch with fewer than two of (children, value)
well_formed(node) ==
    CASE node.type = "Leaf" -> TRUE
      [] node.type = "Extension" ->
           /\ node.key_nibbles # <<>>
           /\ node.child.type # "Extension"
           /\ well_formed(node.child)
      [] node.type = "Branch" ->
           /\ Cardinality({i \in Nibbles : node.children[i].is_some})
                 + (IF node.value.is_some THEN 1 ELSE 0) >= 2
           /\ \A i \in Nibbles :
                 node.children[i].is_some => well_formed(node.children[i].value)

\* C14: after any sequence of insert and delete operations the trie has no
\* extension with empty key nibbles, no extension whose child is an extension
\* and no branch whose children plus value number less than 2.
C14_StructuralInvariants ==
    (TrieRunning /\ trie.is_some) => well_formed(trie.value)

\* a delete left a branch with a single child, an extension, which was merged
C14_Witness ==
    /\ trieLast.op = "delete"
    /\ ~trieLast.panicked
    /\ trieLast.was_stored
    /\ trieLast.pre.value.type = "Branch"
    /\ trie.is_some
    /\ trie.value.type = "Extension"
    /\ Len(trie.value.key_nibbles) = 3

\* C15: after inserts and deletes of stored keys, get(k) of every stored key
\* returns the value of the most recent insert(k, .).
C15_GetReturnsLastInsert ==
    (TrieRunning /\ trieLast.deletes_stored) =>
        \A k \in DOMAIN stored : trie_get(trie, k) = Found(stored[k])

\* the (key, value) pairs a finite map holds, in ascending key order
pairs_of(map) ==
    LET order == ascending(DOMAIN map) IN
    [i \in 1 .. Len(order) |-> [key |-> order[i], value |-> map[order[i]]]]

\* C16: on a key that is not stored, get returns None and delete leaves the
\* root_hash (and with it the stored pairs) unchanged; neither fails.
C16_MissingKeyHarmless ==
    /\ (trieLast.op = "get" /\ ~trieLast.was_stored) => trieLast.result = NotFound
    /\ (trieLast.op = "delete" /\ ~trieLast.was_stored) =>
          /\ ~trieLast.panicked
          /\ trie_root_hash(trie) = trie_root_hash(trieLast.pre)

\* C17: iter() yields exactly the stored (key, value) pairs, each once, in
\* ascending key order.
C17_IterYieldsStoredPairs ==
    (trieLast.op = "iter" /\ trieLast.inserts_only) => trieLast.result = pairs_of(stored)


(***************************************************************************)
(* Specification SpecMachine: a client building one Machine and calling    *)
(* Machine::run on it                                                      *)
(***************************************************************************)
Caller == "a10"
Callee == "a11"
CallerBalance == 5

\* a10: the calling account; a11: a contract whose code is ADD
MachineWorld ==
    [a \in {Caller, Callee} |->
        CASE a = Caller -> account_from_test(0, CallerBalance, <<>>, EmptyMap)
          [] a = Callee -> account_from_test(0, 0, <<ADD>>, EmptyMap)]

\* the seven words of a CALL, the gas word on top
call_stack(callee, value) == <<0, 0, 0, 0, value, callee, 0>>

\* a stack of n words, the seven words of a CALL on top
deep_stack(n) == [i \in 1 .. n - 7 |-> 0] \o call_stack(11, 0)

MachineStacks ==
    {<<>>, <<1>>, <<1, 2>>, <<0, 0, 0>>}
        \cup {deep_stack(n) : n \in {StackLimit - 1, StackLimit, StackLimit + 1}}
        \cup {call_stack(callee, value) : callee \in {2, 10, 11, 12}, value \in {0, 1, CallerBalance + 1}}
MachineCodes == {<<>>, <<ADD>>, <<CALL>>, <<CREATE>>, <<ADD, CALL>>}
MachineGas == {0, 99, 100, 1000, 40000}
MachineDepths == {0, CallCreateDepth}

Machines ==
    [memory : {<<>>}, stack : MachineStacks, pc : {0},
     gas_remaining : MachineGas, call_depth : MachineDepths]

MachineContext(code) ==
    [contract_addr |-> None, origin_sender |-> Caller, gas_price |-> 1,
     input |-> NoData, sender |-> Caller, value |-> 0, code |-> code,
     depth |-> 0, allow_writes |-> TRUE]

NoSubstate ==
    [self_destruct |-> <<>>, logs |-> <<>>, touched_accounts |-> <<>>,
     refund_fee |-> 0, access_list_accounts |-> <<>>, access_list_storage |-> <<>>]

InitMachine ==
    /\ inner = MachineWorld
    /\ journal \in {None, Some(<<>>)}
    /\ snap = NoSnap
    /\ lastOp = "new"
    /\ block = NoBlock
    /\ call = NoCall
    /\ NoTrie
    /\ blocks = <<>>

\* one call of Machine::run
Run(evm, code) ==
    /\ call = NoCall
    /\ LET o == run(evm, MachineContext(code), WS, NoSubstate) IN
        /\ inner' = o.ws.inner
        /\ journal' = o.ws.journal
        /\ call' = [f |-> "run", result |-> o.result.kind, error |-> o.result,
                    evm |-> evm, code |-> code, out |-> o.evm,
                    pre |-> [inner |-> inner, journal |-> journal]]
    /\ UNCHANGED <<snap, lastOp, block>>
    /\ UNCHANGED <<trieVars, blocks>>

\* one call of Machine::stack_push
StackPush(evm, val) ==
    /\ call = NoCall
    /\ call' = [f |-> "stack_push", result |-> stack_push(evm, val).result.kind,
                error |-> stack_push(evm, val).result,
                evm |-> evm, code |-> <<>>, out |-> stack_push(evm, val).evm,
                pre |-> [inner |-> inner, journal |-> journal]]
    /\ UNCHANGED <<inner, journal, snap, lastOp, block>>
    /\ UNCHANGED <<trieVars, blocks>>

\* one call of Machine::stack_pop
StackPop(evm) ==
    /\ call = NoCall
    /\ call' = [f |-> "stack_pop", result |-> stack_pop(evm).result.kind,
                error |-> stack_pop(evm).result,
                evm |-> evm, code |-> <<>>, out |-> stack_pop(evm).evm,
                pre |-> [inner |-> inner, journal |-> journal]]
    /\ UNCHANGED <<inner, journal, snap, lastOp, block>>
    /\ UNCHANGED <<trieVars, blocks>>

NextMachine ==
    \/ \E evm \in Machines, code \in MachineCodes : Run(evm, code)
    \/ \E evm \in Machines, val \in {0, 1} : StackPush(evm, val)
    \/ \E evm \in Machines : StackPop(evm)

SpecMachine == InitMachine /\ [][NextMachine]_vars

(***************************************************************************)
(* Claims on the machine                                                   *)
(***************************************************************************)
\* the address a stack word names: its low-order 20 bytes
WordAddress(word) == "a" \o ToString(word)
Precompiles == {WordAddress(n) : n \in 1 .. 9}

\* run was called on a frame whose next operation is a CALL that passes the
\* stack, gas, depth and balance checks and names an account with code
CallsContract ==
    /\ call.result # "none"
    /\ call.code = <<CALL>>
    /\ Len(call.evm.stack) >= 7
    /\ call.evm.gas_remaining >= JUMP_TABLE[CALL].constant_gas
    /\ call.evm.call_depth < CallCreateDepth
    /\ call.evm.stack[Len(call.evm.stack) - 2] <= call.pre.inner[Caller].balance
    /\ WordAddress(call.evm.stack[Len(call.evm.stack) - 1]) \in DOMAIN call.pre.inner
    /\ WordAddress(call.evm.stack[Len(call.evm.stack) - 1]) \notin Precompiles

\* the frame op_call builds for the callee, run to its end
CalleeFrame ==
    LET callee == WordAddress(call.evm.stack[Len(call.evm.stack) - 1])
        callee_evm == [memory |-> <<>>, stack |-> <<>>, pc |-> 0,
                       gas_remaining |-> call.evm.gas_remaining
                                            - JUMP_TABLE[CALL].constant_gas,
                       call_depth |-> call.evm.call_depth + 1]
        callee_context == [MachineContext(call.pre.inner[callee].code)
                              EXCEPT !.contract_addr = Some(callee), !.depth = 1]
    IN run(callee_evm, callee_context, call.pre, NoSubstate)

\* C22: when the frame of a nested call fails, op_call returns to the caller
\* with gas_remaining equal to the callee frame's gas_remaining at the failure.
C22_FailedCallChargesCallee ==
    (CallsContract /\ CalleeFrame.result.kind = "Err") =>
        /\ call.result # "Panic"
        /\ call.out.gas_remaining = CalleeFrame.evm.gas_remaining

\* run was called on a frame whose first operation is op, with the words and
\* the gas the operation needs
Executes(op) ==
    /\ call.result # "none"
    /\ call.f = "run"
    /\ call.code # <<>>
    /\ call.code[1] = op
    /\ Len(call.evm.stack) >= JUMP_TABLE[op].min_stack
    /\ Len(call.evm.stack) <= JUMP_TABLE[op].max_stack
    /\ call.evm.gas_remaining >= JUMP_TABLE[op].constant_gas

\* C33: every invocation of Machine::run terminates, with a halt or an error,
\* for every code, gas amount and initial stack, runs that execute a CALL
\* included.
C33_RunTerminates ==
    (call.result # "none" /\ call.f = "run") => call.result \in {"Ok", "Err"}

\* C34: from a frame within the limits the stack holds at most 1024 words and
\* call_depth is at most 1024 afterwards; a push onto a full stack returns
\* StackOverflow, a pop from an empty stack returns StackUnderflow, and a CALL
\* or CREATE at depth 1024 returns CallDepthExceeded and spawns no frame.
C34_StackAndDepthBounded ==
    /\ (call.result # "none" /\ Len(call.evm.stack) <= StackLimit) =>
            /\ Len(call.out.stack) <= StackLimit
            /\ call.out.call_depth <= CallCreateDepth
    /\ (call.result # "none" /\ call.f = "stack_push" /\ Len(call.evm.stack) = StackLimit) =>
            call.error = Err("StackOverflow")
    /\ (call.result # "none" /\ call.f = "stack_pop" /\ call.evm.stack = <<>>) =>
            call.error = Err("StackUnderflow")
    /\ \A op \in {CALL, CREATE} :
            (Executes(op) /\ call.evm.call_depth = CallCreateDepth) =>
                /\ call.error = Err("CallDepthExceeded")
                /\ inner = call.pre.inner

\* the value and callee words of the frame's stack
CallValue == call.evm.stack[Len(call.evm.stack) - 2]
CallCallee == WordAddress(call.evm.stack[Len(call.evm.stack) - 1])

\* run executes a CALL that passes the depth and balance checks and names an
\* account that is no precompile and exists or is created by the transfer
CallsAccount ==
    /\ Executes(CALL)
    /\ call.evm.call_depth < CallCreateDepth
    /\ CallValue <= call.pre.inner[Caller].balance
    /\ CallCallee \notin Precompiles
    /\ CallCallee \in DOMAIN call.pre.inner \/ CallValue > 0

RECURSIVE TotalBalance(_)
\* the sum of the balances of all accounts
TotalBalance(in) ==
    IF DOMAIN in = {} THEN 0
    ELSE LET a == CHOOSE x \in DOMAIN in : TRUE
         IN in[a].balance + TotalBalance([x \in DOMAIN in \ {a} |-> in[x]])

\* C35: after a nested call whose callee frame fails, the caller's stack
\* receives 0 and the world state equals the state immediately before the
\* CALL executed (value transfer and account creation undone as well).
C35_FailedCallRestoresState ==
    (CallsAccount /\ call.code = <<CALL>>) =>
        /\ call.result # "Panic"
        /\ call.out.stack = SubSeq(call.evm.stack, 1, Len(call.evm.stack) - 7) \o <<0>>
        /\ inner = call.pre.inner

\* C36: a CALL executed while an outer checkpoint is open opens and closes
\* its nested checkpoint without a panic, and the outer journal can still
\* roll the state back to where the checkpoint was taken.
C36_NestedCheckpointInsideOuter ==
    (CallsAccount /\ call.pre.journal.is_some) =>
        /\ call.result # "Panic"
        /\ journal.is_some
        /\ revert_all(inner, journal.value) = call.pre.inner

\* C37: a CALL value transfer conserves the total balance, for every caller,
\* callee (the caller itself included) and value within the caller's balance.
C37_CallConservesBalance ==
    CallsAccount =>
        /\ call.result # "Panic"
        /\ TotalBalance(inner) = TotalBalance(call.pre.inner)

\* C40: op_call derives the callee address from the stack word as its
\* low-order 20 bytes, for every word, and never fails in this conversion.
C40_CalleeAddressConversion ==
    Executes(CALL) => call.error # Panic("attempt to subtract with overflow")


(***************************************************************************)
(* Blocks (src/crates/layer1/src/block.rs) and the Blockchain              *)
(***************************************************************************)
\* hashes::EMPTY_LIST_HASH: the digest of the RLP of the empty list
EMPTY_LIST_HASH == Keccak256(rlp_list(<<>>))

\* encode_key of the three list tries: the RLP of the index as u64
encode_key(i) == IF i = 0 THEN <<128>> ELSE <<i>>

RECURSIVE insert_encoded(_, _, _)
\* the loop of hash_transactions, hash_receipts and hash_withdrawals
insert_encoded(root, values, i) ==
    IF i > Len(values) THEN root
    ELSE insert_encoded(trie_insert(root, encode_key(i - 1), values[i]), values, i + 1)

\* a transaction and a withdrawal are carried as their encoding; a receipt as
\* [tx_type, bytes (its encoding), logs_bloom (the set of bits that are set)]
hash_transactions(transactions) ==
    trie_root_hash(insert_encoded(ModifiedTrie_new, transactions, 1))

hash_receipts(receipts) ==
    trie_root_hash(insert_encoded(ModifiedTrie_new,
                                  [i \in DOMAIN receipts |-> receipts[i].bytes], 1))

hash_withdrawals(withdrawals) ==
    trie_root_hash(insert_encoded(ModifiedTrie_new, withdrawals, 1))

\* merge_bloom: the bitwise OR of the receipts' blooms
merge_bloom(receipts) == UNION {receipts[i].logs_bloom : i \in DOMAIN receipts}

\* Block::default, less the fields no check reads (beneficiary, difficulty,
\* gas_used, extra_data, prev_randao, nonce and the blob gas fields)
Block_default ==
    [header |-> [parent_hash |-> H256_zero, ommers_hash |-> EMPTY_LIST_HASH,
                 state_root |-> H256_zero, transactions_root |-> EMPTY_TRIE_HASH,
                 receipts_root |-> EMPTY_TRIE_HASH, logs_bloom |-> {},
                 number |-> 0, gas_limit |-> 0, timestamp |-> 0, base_fee |-> 0,
                 withdrawals_root |-> EMPTY_TRIE_HASH],
     transactions |-> <<>>, receipts |-> <<>>, withdrawals |-> <<>>]

\* Encodable for Block: the header, then the three lists of the body; a
\* receipt of type 0 is appended as it is, any other behind its type byte
rlp_block(b) ==
    rlp_list(<<b.header, b.transactions,
               [i \in DOMAIN b.receipts |->
                    IF b.receipts[i].tx_type = 0 THEN b.receipts[i].bytes
                    ELSE <<b.receipts[i].tx_type>> \o b.receipts[i].bytes],
               b.withdrawals>>)

\* Block::hash: the digest of the encoding of the whole block
block_hash(b) == Keccak256(rlp_block(b))

holistic_validity_check(b, state) ==
    IF b.header.state_root # root_hash(state.inner) THEN Err("state_root not match")
    ELSE IF b.header.ommers_hash # EMPTY_LIST_HASH THEN Err("ommers_hash not match")
    ELSE IF b.header.transactions_root # hash_transactions(b.transactions)
        THEN Err("transactions_root not match")
    ELSE IF b.header.receipts_root # hash_receipts(b.receipts)
        THEN Err("receipts_root not match")
    ELSE IF b.header.withdrawals_root # hash_withdrawals(b.withdrawals)
        THEN Err("withdrawals_root not match")
    ELSE IF b.header.logs_bloom # merge_bloom(b.receipts) THEN Err("logs_bloom not match")
    ELSE Ok

header_validity_check(b, parent) ==
    IF b.header.parent_hash # block_hash(parent) THEN Err("parent_hash mismatch")
    ELSE IF b.header.number # parent.header.number + 1 THEN Err("number not match")
    ELSE IF b.header.gas_limit = 0 THEN Err("gas_limit is zero")
    ELSE IF b.header.timestamp = 0 THEN Err("timestamp is zero")
    ELSE IF b.header.base_fee = 0 THEN Err("base_fee is zero")
    ELSE Ok

\* Blockchain::add_block on chain = [blocks, state]: the header is checked
\* against the last block (or the number against 0), the header's state_root
\* is overwritten with the state's root, then the holistic check runs
add_block(chain, b) ==
    LET first == IF chain.blocks # <<>>
                 THEN header_validity_check(b, chain.blocks[Len(chain.blocks)])
                 ELSE IF b.header.number # 0
                      THEN Err("First block must be genesis block (number 0)")
                      ELSE Ok
        stamped == [b EXCEPT !.header.state_root = root_hash(chain.state.inner)]
        second == holistic_validity_check(stamped, chain.state)
    IN IF first.kind # "Ok" THEN [result |-> first, blocks |-> chain.blocks]
       ELSE IF second.kind # "Ok" THEN [result |-> second, blocks |-> chain.blocks]
       ELSE [result |-> Ok, blocks |-> Append(chain.blocks, stamped)]

(***************************************************************************)
(* Specification SpecChain: a client adding blocks to one Blockchain       *)
(***************************************************************************)
\* longest chain explored
MaxChain == 2

ChainTransactions == {<<>>, <<<<1>>>>}
ChainReceipts ==
    {<<>>,
     <<[tx_type |-> 0, bytes |-> <<1>>, logs_bloom |-> {3}]>>,
     <<[tx_type |-> 2, bytes |-> <<1>>, logs_bloom |-> {3}],
       [tx_type |-> 0, bytes |-> <<2>>, logs_bloom |-> {3, 5}]>>}
ChainTimestamps == {1, 2}

\* a block that passes every check on top of the chain
GoodBlock(chain, transactions, receipts, timestamp) ==
    [header |->
        [Block_default.header EXCEPT
            !.parent_hash = IF chain.blocks = <<>> THEN H256_zero
                            ELSE block_hash(chain.blocks[Len(chain.blocks)]),
            !.number = Len(chain.blocks),
            !.state_root = root_hash(chain.state.inner),
            !.transactions_root = hash_transactions(transactions),
            !.receipts_root = hash_receipts(receipts),
            !.logs_bloom = merge_bloom(receipts),
            !.gas_limit = 1, !.timestamp = timestamp, !.base_fee = 1],
     transactions |-> transactions, receipts |-> receipts, withdrawals |-> <<>>]

\* the block and the blocks that differ from it in one header field
Deviations(b) ==
    {b,
     [b EXCEPT !.header.parent_hash = block_hash(Block_default)],
     [b EXCEPT !.header.number = @ + 1],
     [b EXCEPT !.header.gas_limit = 0],
     [b EXCEPT !.header.timestamp = 0],
     [b EXCEPT !.header.base_fee = 0],
     [b EXCEPT !.header.state_root = H256_zero],
     [b EXCEPT !.header.ommers_hash = H256_zero],
     [b EXCEPT !.header.transactions_root = H256_zero],
     [b EXCEPT !.header.receipts_root = H256_zero],
     [b EXCEPT !.header.withdrawals_root = H256_zero],
     [b EXCEPT !.header.logs_bloom = @ \cup {7}]}

Chain == [blocks |-> blocks, state |-> WS]

CandidateBlocks ==
    UNION {Deviations(GoodBlock(Chain, txs, rs, ts)) :
            txs \in ChainTransactions, rs \in ChainReceipts, ts \in ChainTimestamps}

\* Blockchain::new
InitChain ==
    /\ blocks = <<>>
    /\ inner = WorldStateTrie_new.inner
    /\ journal = WorldStateTrie_new.journal
    /\ snap = NoSnap
    /\ lastOp = "new"
    /\ block = NoBlock
    /\ call = NoCall
    /\ NoTrie

AddBlock(b) ==
    /\ Len(blocks) < MaxChain
    /\ blocks' = add_block(Chain, b).blocks
    /\ call' = [result |-> add_block(Chain, b).result.kind, block |-> b,
                pre |-> blocks, state |-> WS]
    /\ UNCHANGED <<inner, journal, snap, lastOp, block>>
    /\ UNCHANGED trieVars

NextChain == \E b \in CandidateBlocks : AddBlock(b)

SpecChain == InitChain /\ [][NextChain]_vars

(***************************************************************************)
(* Claims on blocks and the chain                                          *)
(***************************************************************************)
Added == call.result # "none"
HasParent == Added /\ call.pre # <<>>
Parent == call.pre[Len(call.pre)]

\* C23: header_validity_check accepts a block against its parent only if
\* parent_hash = hash(parent), number = parent.number + 1, gas_limit > 0,
\* timestamp > parent.timestamp and base_fee > 0, and returns an error otherwise.
C23_HeaderCheckedAgainstParent ==
    HasParent =>
        (header_validity_check(call.block, Parent).kind = "Ok"
            <=> /\ call.block.header.parent_hash = block_hash(Parent)
                /\ call.block.header.number = Parent.header.number + 1
                /\ call.block.header.gas_limit > 0
                /\ call.block.header.timestamp > Parent.header.timestamp
                /\ call.block.header.base_fee > 0)

\* C24: two blocks with equal headers have equal hash(), whatever their
\* transactions, receipts and withdrawals.
C24_HashOfHeaderAlone ==
    Added =>
        \A txs \in ChainTransactions, rs \in ChainReceipts :
            block_hash([call.block EXCEPT !.transactions = txs, !.receipts = rs])
                = block_hash(call.block)

\* C25: add_block returns an error and appends nothing for every block whose
\* state_root differs from the state's root_hash() and for every block that
\* fails another holistic check; a rejection leaves the chain unchanged.
C25_AddBlockRejects ==
    Added =>
        /\ holistic_validity_check(call.block, call.state).kind # "Ok"
                => (call.result = "Err" /\ blocks = call.pre)
        /\ call.result = "Err" => blocks = call.pre


(***************************************************************************)
(* Blob gas (block.rs) and the byte counts of intrinsic_gas                *)
(***************************************************************************)
TARGET_BLOB_GAS_PER_BLOCK == 393216
MIN_BASE_FEE_PER_BLOB_GAS == 1
BLOB_BASE_FEE_UPDATE_FRACTION == 3338477


RECURSIVE fake_exponential_loop(_, _, _, _, _)
\* the while loop of fake_exponential; the words met here stay far below 2^256
fake_exponential_loop(i, output, numerator_accum, numerator, denominator) ==
    IF numerator_accum > 0
    THEN fake_exponential_loop(i + 1, output + numerator_accum,
                               (numerator_accum * numerator) \div (denominator * i),
                               numerator, denominator)
    ELSE output

\* the function returns output as it stands: the division by the denominator
\* is written behind a comment sign
fake_exponential(factor, numerator, denominator) ==
    fake_exponential_loop(1, 0, factor * denominator, numerator, denominator)

get_base_fee_per_blob_gas(b) ==
    fake_exponential(MIN_BASE_FEE_PER_BLOB_GAS, b.header.excess_blob_gas,
                     BLOB_BASE_FEE_UPDATE_FRACTION)

calc_excess_blob_gas(parent) ==
    IF u256_overflows(parent.excess_blob_gas + parent.blob_gas_used)
    THEN Panic("arithmetic operation overflow")
    ELSE IF parent.excess_blob_gas + parent.blob_gas_used < TARGET_BLOB_GAS_PER_BLOCK
    THEN Value(0)
    ELSE Value(parent.excess_blob_gas + parent.blob_gas_used - TARGET_BLOB_GAS_PER_BLOCK)

\* tx.data.iter().filter(|b| b == 0).count() and the rest of the bytes
count_bytes(data) ==
    [zeros |-> Cardinality({i \in DOMAIN data : data[i] = 0}),
     non_zeros |-> Len(data) - Cardinality({i \in DOMAIN data : data[i] = 0})]

(***************************************************************************)
(* The log bloom (receipts.rs): a bloom is kept as the set of its set      *)
(* bits, each <<byte_index, bit_in_byte>>                                  *)
(***************************************************************************)
\* the first six bytes of Keccak256::digest(bytes), indexed from 0: a fixed
\* function of the bytes standing for the digest
digest_byte(bytes, i) == ((bytes + i) * (bytes + i) * 2 + i * 93 + 7) % 256

\* bloom[byte_index] = 1 << bit_in_byte: the other bits of the byte are lost
set_bit_assigning(bloom, bit_index) ==
    {b \in bloom : b[1] # 255 - (bit_index \div 8)}
        \cup {<<255 - (bit_index \div 8), bit_index % 8>>}

\* bloom[byte_index] |= 1 << bit_in_byte
set_bit(bloom, bit_index) == bloom \cup {<<255 - (bit_index \div 8), bit_index % 8>>}

\* the three bits of one address or topic: for i in [0, 2, 4]
bloom_add(bloom, bytes) ==
    LET bit_index(i) == (digest_byte(bytes, i) * 256 + digest_byte(bytes, i + 1)) % 2048
    IN set_bit(set_bit(set_bit(bloom, bit_index(0)), bit_index(2)), bit_index(4))

RECURSIVE bloom_add_all(_, _)
\* the address of a log, then its topics
bloom_add_all(bloom, items) ==
    IF items = <<>> THEN bloom
    ELSE bloom_add_all(bloom_add(bloom, items[1]), Tail(items))

RECURSIVE bloom_filter_from(_, _)
bloom_filter_from(bloom, logs) ==
    IF logs = <<>> THEN bloom
    ELSE bloom_filter_from(bloom_add_all(bloom, <<logs[1].address>> \o logs[1].topics),
                           Tail(logs))

\* bloom_filter starts from the all-zero bloom
bloom_filter(logs) == bloom_filter_from({}, logs)

\* Receipt::new derives logs_bloom from the logs
Receipt_new(tx_type, logs) ==
    [tx_type |-> tx_type, bytes |-> <<tx_type>>, logs_bloom |-> bloom_filter(logs),
     logs |-> logs]

(***************************************************************************)
(* Transaction envelopes (src/src/layer1/transaction.rs). A byte string is *)
(* kept as the sequence of its leading type byte and of the RLP items its  *)
(* remaining bytes frame; RLP framing itself is taken as one-to-one        *)
(***************************************************************************)
\* one byte that is written outside any RLP item
raw_byte(b) == [rlp |-> "byte", byte |-> b]

\* bytes[0] of a byte string that is not empty: the raw byte, or the first
\* byte of the framing of its first item
leading_byte(bytes) ==
    LET item == bytes[1]
        RECURSIVE payload(_)
        payload(i) == IF i = 0 THEN 0 ELSE rlp_len(item.items[i]) + payload(i - 1)
    IN IF item.rlp = "byte" THEN item.byte
       ELSE IF item.rlp = "string"
       THEN IF Len(item.bytes) = 1 /\ item.bytes[1] < 128 THEN item.bytes[1]
            ELSE IF Len(item.bytes) < 56 THEN 128 + Len(item.bytes)
            ELSE 183 + length_of_length(Len(item.bytes))
       ELSE IF payload(Len(item.items)) < 56 THEN 192 + payload(Len(item.items))
       ELSE 247 + length_of_length(payload(Len(item.items)))

RECURSIVE be_bytes(_)
\* the big-endian bytes of an unsigned integer, without leading zeros
be_bytes(n) == IF n = 0 THEN <<>> ELSE be_bytes(n \div 256) \o <<n % 256>>

RECURSIVE from_be(_)
from_be(bytes) ==
    IF bytes = <<>> THEN 0
    ELSE from_be(SubSeq(bytes, 1, Len(bytes) - 1)) * 256 + bytes[Len(bytes)]

\* Encodable for u8, u64 and U256
encode_uint(n) == rlp_string(be_bytes(n))

\* Encodable for H256 (len = 32) and Address (len = 20): all the bytes
encode_hash(n, len) ==
    rlp_string([i \in 1 .. len - Len(be_bytes(n)) |-> 0] \o be_bytes(n))

\* Decodable for the unsigned integers: a leading zero byte is refused
decode_uint(item, max_len) ==
    IF item.rlp # "string" THEN Err("RlpExpectedToBeData")
    ELSE IF Len(item.bytes) > max_len THEN Err("RlpIsTooBig")
    ELSE IF item.bytes # <<>> /\ item.bytes[1] = 0 THEN Err("RlpInvalidIndirection")
    ELSE Value(from_be(item.bytes))

decode_hash(item, len) ==
    IF item.rlp # "string" THEN Err("RlpExpectedToBeData")
    ELSE IF Len(item.bytes) < len THEN Err("RlpIsTooShort")
    ELSE IF Len(item.bytes) > len THEN Err("RlpIsTooBig")
    ELSE Value(from_be(item.bytes))

decode_bytes(item) ==
    IF item.rlp # "string" THEN Err("RlpExpectedToBeData") ELSE Value(item.bytes)

\* the first error among the results, or the values of all of them
all_decoded(results) ==
    IF \A i \in DOMAIN results : results[i].kind = "Ok"
    THEN Value([i \in DOMAIN results |-> results[i].value])
    ELSE results[CHOOSE i \in DOMAIN results :
                    /\ results[i].kind # "Ok"
                    /\ \A j \in DOMAIN results : j < i => results[j].kind = "Ok"]

\* Rlp::list_at for Vec<H256>
decode_hash_list(item) ==
    IF item.rlp # "list" THEN Err("RlpExpectedToBeList")
    ELSE all_decoded([i \in DOMAIN item.items |-> decode_hash(item.items[i], 32)])

encode_access_list_item(a) ==
    rlp_list(<<encode_hash(a.address, 20),
               rlp_list([i \in DOMAIN a.storage_keys |-> encode_hash(a.storage_keys[i], 32)])>>)

decode_access_list_item(item) ==
    IF item.rlp # "list" \/ Len(item.items) # 2 THEN Err("RlpIncorrectListLen")
    ELSE LET fields == all_decoded(<<decode_hash(item.items[1], 20),
                                      decode_hash_list(item.items[2])>>)
         IN IF fields.kind # "Ok" THEN fields
            ELSE Value([address |-> fields.value[1], storage_keys |-> fields.value[2]])

decode_access_list(item) ==
    IF item.rlp # "list" THEN Err("RlpExpectedToBeList")
    ELSE all_decoded([i \in DOMAIN item.items |-> decode_access_list_item(item.items[i])])

\* the rlp crate's Decodable for Option<T>: a list of no item or of one item
decode_option_address(item) ==
    IF item.rlp # "list" THEN Err("RlpExpectedToBeList")
    ELSE IF Len(item.items) = 0 THEN Value(None)
    ELSE IF Len(item.items) = 1
    THEN (IF decode_hash(item.items[1], 20).kind # "Ok" THEN decode_hash(item.items[1], 20)
          ELSE Value(Some(decode_hash(item.items[1], 20).value)))
    ELSE Err("RlpIncorrectListLen")

\* the `to` of the 11-item branch: None for an empty string or an empty list
decode_to_if_not_empty(item) ==
    IF item \in {rlp_string(<<>>), rlp_list(<<>>)} THEN Value(None)
    ELSE IF decode_hash(item, 20).kind # "Ok" THEN decode_hash(item, 20)
    ELSE Value(Some(decode_hash(item, 20).value))

\* the items rlp_append appends after begin_list, in their order
tx_items(tx) ==
    <<encode_uint(tx.chain_id), encode_uint(tx.nonce)>>
    \o (IF tx.gas_price_or_dynamic_fee.is_left
        THEN <<encode_uint(tx.gas_price_or_dynamic_fee.gas_price)>>
        ELSE <<encode_uint(tx.gas_price_or_dynamic_fee.max_priority_fee),
               encode_uint(tx.gas_price_or_dynamic_fee.max_fee)>>)
    \o <<encode_uint(tx.gas_limit),
          IF tx.to.is_some THEN encode_hash(tx.to.value, 20) ELSE rlp_string(<<>>),
          encode_uint(tx.value),
          rlp_string(tx.data),
          rlp_list([i \in DOMAIN tx.access_list |-> encode_access_list_item(tx.access_list[i])]),
          encode_uint(tx.v), encode_hash(tx.s, 32), encode_hash(tx.r, 32)>>

\* rlp::encode(tx): begin_list(11 or 12) by tx_type; a list left short makes
\* out() panic, an item too many follows the closed list
rlp_encode_tx(tx) ==
    LET encoded_item == IF tx.tx_type = 1 THEN 11 ELSE 12 IN
    IF tx.tx_type \notin {1, 2} THEN Panic("Unsupported transaction type")
    ELSE IF Len(tx_items(tx)) < encoded_item THEN Panic("unfinished list")
    ELSE Value(<<rlp_list(SubSeq(tx_items(tx), 1, encoded_item))>>
               \o SubSeq(tx_items(tx), encoded_item + 1, Len(tx_items(tx))))

\* Transaction1or2::serialization
serialization(tx) ==
    IF rlp_encode_tx(tx).kind # "Ok" THEN rlp_encode_tx(tx)
    ELSE Value(<<raw_byte(tx.tx_type)>> \o rlp_encode_tx(tx).value)

\* the 11-item branch of Decodable for Transaction1or2
decode_type1(items) ==
    LET fields == all_decoded(<<decode_to_if_not_empty(items[5]),
                                decode_uint(items[1], 8), decode_uint(items[2], 8),
                                decode_uint(items[3], 32), decode_uint(items[4], 8),
                                decode_uint(items[6], 32), decode_bytes(items[7]),
                                decode_access_list(items[8]), decode_uint(items[9], 1),
                                decode_hash(items[10], 32), decode_hash(items[11], 32)>>)
    IN IF fields.kind # "Ok" THEN fields
       ELSE Value([tx_type |-> 1, chain_id |-> fields.value[2], nonce |-> fields.value[3],
                   gas_price_or_dynamic_fee |-> Left(fields.value[4]),
                   gas_limit |-> fields.value[5], to |-> fields.value[1],
                   value |-> fields.value[6], data |-> fields.value[7],
                   access_list |-> fields.value[8], v |-> fields.value[9],
                   s |-> fields.value[10], r |-> fields.value[11]])

\* the 12-item branch: `to` is read through Decodable for Option<Address>
decode_type2(items) ==
    LET fields == all_decoded(<<decode_uint(items[1], 8), decode_uint(items[2], 8),
                                decode_uint(items[3], 32), decode_uint(items[4], 32),
                                decode_uint(items[5], 8), decode_option_address(items[6]),
                                decode_uint(items[7], 32), decode_bytes(items[8]),
                                decode_access_list(items[9]), decode_uint(items[10], 1),
                                decode_hash(items[11], 32), decode_hash(items[12], 32)>>)
    IN IF fields.kind # "Ok" THEN fields
       ELSE Value([tx_type |-> 2, chain_id |-> fields.value[1], nonce |-> fields.value[2],
                   gas_price_or_dynamic_fee |-> Right(fields.value[3], fields.value[4]),
                   gas_limit |-> fields.value[5], to |-> fields.value[6],
                   value |-> fields.value[7], data |-> fields.value[8],
                   access_list |-> fields.value[9], v |-> fields.value[10],
                   s |-> fields.value[11], r |-> fields.value[12]])

\* Decodable for Transaction1or2, on the first item of the payload
decode_tx(payload) ==
    IF payload = <<>> \/ payload[1].rlp # "list" \/ Len(payload[1].items) \notin {11, 12}
    THEN Err("RlpIncorrectListLen")
    ELSE IF Len(payload[1].items) = 11 THEN decode_type1(payload[1].items)
    ELSE decode_type2(payload[1].items)

\* Transaction1or2::deserialization: bytes[0] is read before any test
deserialization(bytes) ==
    IF Len(bytes) = 0 THEN Panic("index out of bounds")
    ELSE IF leading_byte(bytes) \notin {1, 2} THEN Err("Unsupported transaction type")
    ELSE IF decode_tx(Tail(bytes)).kind # "Ok" THEN decode_tx(Tail(bytes))
    ELSE Value([decode_tx(Tail(bytes)).value EXCEPT !.tx_type = leading_byte(bytes)])

(***************************************************************************)
(* Receipt envelopes (src/src/layer1/receipts.rs)                          *)
(***************************************************************************)
\* logs_bloom as its 256 bytes, and back
bloom_bytes(bloom) ==
    [i \in 1 .. 256 |->
        LET RECURSIVE byte_of(_)
            byte_of(b) == IF b < 0 THEN 0
                          ELSE (IF <<i - 1, b>> \in bloom THEN 2 ^ b ELSE 0) + byte_of(b - 1)
        IN byte_of(7)]

bloom_of_bytes(bytes) ==
    {bit \in (0 .. 255) \X (0 .. 7) : (bytes[bit[1] + 1] \div (2 ^ bit[2])) % 2 = 1}

\* Encodable for Log: [address, topics, data]
rlp_log(log) ==
    rlp_list(<<encode_hash(log.address, 20),
               rlp_list([i \in DOMAIN log.topics |-> encode_hash(log.topics[i], 32)]),
               rlp_string(log.data)>>)

\* Decodable for Log
decode_log(item) ==
    IF item.rlp # "list" \/ Len(item.items) # 3 THEN Err("RlpIncorrectListLen")
    ELSE LET fields == all_decoded(<<decode_hash(item.items[1], 20),
                                      decode_hash_list(item.items[2]),
                                      decode_bytes(item.items[3])>>)
         IN IF fields.kind # "Ok" THEN fields
            ELSE Value([address |-> fields.value[1], topics |-> fields.value[2],
                        data |-> fields.value[3]])

\* Rlp::list_at for Vec<Log>
decode_logs(item) ==
    IF item.rlp # "list" THEN Err("RlpExpectedToBeList")
    ELSE all_decoded([i \in DOMAIN item.items |-> decode_log(item.items[i])])

\* Encodable for Receipt: four items, tx_type is left out
rlp_receipt(r) ==
    rlp_list(<<encode_uint(r.status_code), encode_uint(r.cumulative_gas_used),
               rlp_string(bloom_bytes(r.logs_bloom)),
               rlp_list([i \in DOMAIN r.logs |-> rlp_log(r.logs[i])])>>)

\* Decodable for Receipt, on the first item of the payload; tx_type is 0
decode_receipt(payload) ==
    IF payload = <<>> \/ payload[1].rlp # "list" \/ Len(payload[1].items) # 4
    THEN Err("RlpIncorrectListLen")
    ELSE LET items == payload[1].items
             fields == all_decoded(<<decode_uint(items[1], 1), decode_uint(items[2], 32),
                                     decode_logs(items[4])>>)
         IN IF decode_bytes(items[3]).kind # "Ok" THEN decode_bytes(items[3])
            ELSE IF Len(items[3].bytes) # 256 THEN Err("logs bloom length != 256")
            ELSE IF fields.kind # "Ok" THEN fields
            ELSE Value(Receipt(0, fields.value[1], fields.value[2], fields.value[3],
                               bloom_of_bytes(items[3].bytes)))

\* Receipt::serialization: a legacy receipt is the list alone
Receipt_serialization(r) ==
    IF r.tx_type = 0 THEN <<rlp_receipt(r)>> ELSE <<raw_byte(r.tx_type)>> \o <<rlp_receipt(r)>>

\* the mutant: every envelope is read as a legacy one
Receipt_deserialization_legacy(bytes) ==
    IF decode_receipt(bytes).kind # "Ok" THEN decode_receipt(bytes)
    ELSE Value([decode_receipt(bytes).value EXCEPT !.tx_type = 0])

\* Receipt::deserialization: a first byte 1 or 2 is the type, else legacy
Receipt_deserialization(bytes) ==
    LET typed == bytes # <<>> /\ leading_byte(bytes) \in {1, 2}
        tx_type == IF typed THEN leading_byte(bytes) ELSE 0
        payload == IF typed THEN Tail(bytes) ELSE bytes
    IN IF decode_receipt(payload).kind # "Ok" THEN decode_receipt(payload)
       ELSE Value([decode_receipt(payload).value EXCEPT !.tx_type = tx_type])

(***************************************************************************)
(* Specification SpecPure: single calls of the pure functions, on inputs   *)
(* drawn from bounded sets                                                 *)
(***************************************************************************)
\* byte strings of 0, 1, 2, 32 and 33 bytes, with and without zero bytes
PureData ==
    {<<>>, <<0>>, <<7>>, <<0, 7>>}
        \cup {[i \in 1 .. n |-> IF i % 3 = 0 THEN 0 ELSE i] : n \in {32, 33}}
PureAccessLists == {<<>>, <<0>>, <<2>>, <<1, 3>>}
PureTx ==
    [tx_type : {1, 2}, to : {None, Some("a2")}, data : PureData,
     access_list : PureAccessLists]

PureBlobGas == {0, 1, 1000, TARGET_BLOB_GAS_PER_BLOCK, TARGET_BLOB_GAS_PER_BLOCK + 1, U256Max}
PureFactors == {1, 2}
PureNumerators == {0, 1, 7, 100}
PureDenominators == {1, 7, 100}
PureExcess == {0, 1, 100}
\* largest numerator / denominator explored
MaxExponent == 7
PureExponents ==
    {a \in PureFactors \X PureNumerators \X PureDenominators :
        a[2] <= MaxExponent * a[3]}

PureLogs == [address : {1, 2}, topics : {<<>>, <<3>>, <<3, 4>>}]
PureLogLists == {<<>>} \cup {<<l>> : l \in PureLogs} \cup {<<l, m>> : l, m \in PureLogs}
PureShortLogLists == {<<>>} \cup {<<l>> : l \in PureLogs}
PureReceiptLists ==
    {<<>>} \cup {<<Receipt_new(2, l)>> : l \in PureShortLogLists}
        \cup {<<Receipt_new(2, l), Receipt_new(1, m)>> : l, m \in PureShortLogLists}

\* receipts of the three types, with a bloom of their logs or another one
PureEnvelopeLogs == [address : {1, 2}, topics : {<<>>, <<3, 4>>}, data : {<<>>, <<153, 153>>}]
PureReceipts ==
    {Receipt(t, z, u, l, b) :
        t \in {0, 1, 2}, z \in {0, 1}, u \in {0, 1, 21000},
        l \in {<<>>} \cup {<<x>> : x \in PureEnvelopeLogs},
        b \in {{}, {<<255, 1>>}, bloom_filter(<<[address |-> 1, topics |-> <<3, 4>>]>>)}}

\* well-formed transactions: type 1 with a gas price, type 2 with a fee pair
PureEnvelopeTx ==
    {tx \in [tx_type : {1, 2}, chain_id : {1}, nonce : {0, 1}, gas_limit : {21000},
             to : {None, Some(5)}, value : {0, 300}, r : {7}, s : {9},
             data : {<<>>, <<0>>}, v : {0, 1},
             gas_price_or_dynamic_fee : {Left(2), Right(1, 3)},
             access_list : {<<>>, <<[address |-> 5, storage_keys |-> <<1>>]>>}] :
        (tx.tx_type = 1) = tx.gas_price_or_dynamic_fee.is_left}

\* byte strings: the serializations, and each with another type byte, with
\* bytes behind the list, with the `to` item framed as a list, with fewer
\* items, with no list and with no type byte; the empty string and the lone
\* type bytes
PureEnvelopes ==
    LET plain == {serialization(tx).value : tx \in {t \in PureEnvelopeTx : t.nonce = 0}}
        to_at(b) == IF Len(b[2].items) = 11 THEN 5 ELSE 6
    IN plain
        \cup {[b EXCEPT ![1] = raw_byte(t)] : b \in plain, t \in {0, 1, 2, 3}}
        \cup {b \o <<rlp_string(<<>>)>> : b \in plain}
        \cup {[b EXCEPT ![2].items[to_at(b)] = rlp_list(<<encode_hash(5, 20)>>)] :
                b \in plain}
        \cup {[b EXCEPT ![2].items = SubSeq(@, 1, n)] : b \in plain, n \in {0, 10, 11}}
        \cup {[b EXCEPT ![2] = rlp_string(<<>>)] : b \in plain}
        \cup {Tail(b) : b \in plain}
        \cup {<<>>, <<raw_byte(1)>>, <<raw_byte(2)>>}

InitPure ==
    /\ call = NoCall
    /\ inner = EmptyMap
    /\ journal = None
    /\ snap = NoSnap
    /\ lastOp = "new"
    /\ block = NoBlock
    /\ NoTrie
    /\ blocks = <<>>

\* the record of a call of f on arg that left out
Call(f, arg, out) == [result |-> "returned", f |-> f, arg |-> arg, out |-> out]

IntrinsicGas(tx) ==
    /\ call = NoCall
    /\ call' = Call("intrinsic_gas", tx,
                    intrinsic_gas([tx EXCEPT !.data = count_bytes(tx.data)]))
    /\ UNCHANGED <<inner, journal, snap, lastOp, block, blocks>>
    /\ UNCHANGED trieVars

CalcExcessBlobGas(parent) ==
    /\ call = NoCall
    /\ call' = Call("calc_excess_blob_gas", parent, calc_excess_blob_gas(parent))
    /\ UNCHANGED <<inner, journal, snap, lastOp, block, blocks>>
    /\ UNCHANGED trieVars

FakeExponential(factor, numerator, denominator) ==
    /\ call = NoCall
    /\ call' = Call("fake_exponential", <<factor, numerator, denominator>>,
                    fake_exponential(factor, numerator, denominator))
    /\ UNCHANGED <<inner, journal, snap, lastOp, block, blocks>>
    /\ UNCHANGED trieVars

GetBaseFeePerBlobGas(b) ==
    /\ call = NoCall
    /\ call' = Call("get_base_fee_per_blob_gas", b, get_base_fee_per_blob_gas(b))
    /\ UNCHANGED <<inner, journal, snap, lastOp, block, blocks>>
    /\ UNCHANGED trieVars

\* bloom_filter called on two lists and on the two put end to end
BloomFilter(logs1, logs2) ==
    /\ call = NoCall
    /\ call' = Call("bloom_filter", <<logs1, logs2>>,
                    [left |-> bloom_filter(logs1), right |-> bloom_filter(logs2),
                     whole |-> bloom_filter(logs1 \o logs2)])
    /\ UNCHANGED <<inner, journal, snap, lastOp, block, blocks>>
    /\ UNCHANGED trieVars

MergeBloom(receipts) ==
    /\ call = NoCall
    /\ call' = Call("merge_bloom", receipts, merge_bloom(receipts))
    /\ UNCHANGED <<inner, journal, snap, lastOp, block, blocks>>
    /\ UNCHANGED trieVars

\* serialization, then deserialization of what it returned
SerializeDeserialize(tx) ==
    /\ call = NoCall
    /\ call' = Call("serialization", tx,
                    [bytes |-> serialization(tx),
                     back |-> IF serialization(tx).kind = "Ok"
                              THEN deserialization(serialization(tx).value)
                              ELSE serialization(tx)])
    /\ UNCHANGED <<inner, journal, snap, lastOp, block, blocks>>
    /\ UNCHANGED trieVars

\* deserialization, then serialization of the transaction it returned
DeserializeSerialize(bytes) ==
    /\ call = NoCall
    /\ call' = Call("deserialization", bytes,
                    [tx |-> deserialization(bytes),
                     back |-> IF deserialization(bytes).kind = "Ok"
                              THEN serialization(deserialization(bytes).value)
                              ELSE deserialization(bytes)])
    /\ UNCHANGED <<inner, journal, snap, lastOp, block, blocks>>
    /\ UNCHANGED trieVars

\* Receipt::serialization, deserialization of it, and serialization again
ReceiptRoundTrip(r) ==
    /\ call = NoCall
    /\ call' = Call("Receipt::serialization", r,
                    [bytes |-> Receipt_serialization(r),
                     back |-> Receipt_deserialization(Receipt_serialization(r)),
                     again |-> IF Receipt_deserialization(Receipt_serialization(r)).kind = "Ok"
                               THEN Receipt_serialization(
                                        Receipt_deserialization(Receipt_serialization(r)).value)
                               ELSE <<>>])
    /\ UNCHANGED <<inner, journal, snap, lastOp, block, blocks>>
    /\ UNCHANGED trieVars

NextPure ==
    \/ \E tx \in PureTx : IntrinsicGas(tx)
    \/ \E e \in PureBlobGas, u \in PureBlobGas :
            CalcExcessBlobGas([excess_blob_gas |-> e, blob_gas_used |-> u])
    \/ \E a \in PureExponents : FakeExponential(a[1], a[2], a[3])
    \/ \E e \in PureExcess :
            GetBaseFeePerBlobGas([header |-> [excess_blob_gas |-> e]])
    \/ \E logs1 \in PureLogLists, logs2 \in PureShortLogLists : BloomFilter(logs1, logs2)
    \/ \E receipts \in PureReceiptLists : MergeBloom(receipts)
    \/ \E tx \in PureEnvelopeTx : SerializeDeserialize(tx)
    \/ \E bytes \in PureEnvelopes : DeserializeSerialize(bytes)
    \/ \E r \in PureReceipts : ReceiptRoundTrip(r)

SpecPure == InitPure /\ [][NextPure]_vars

(***************************************************************************)
(* Claims on the pure functions                                            *)
(***************************************************************************)
AppliedFn(f) == call # NoCall /\ call.f = f

RECURSIVE data_gas(_)
\* 4 for each zero byte and 16 for each other byte
data_gas(data) ==
    IF data = <<>> THEN 0
    ELSE (IF data[1] = 0 THEN 4 ELSE 16) + data_gas(Tail(data))

RECURSIVE access_gas(_)
\* 2400 for each address and 1900 for each of its storage keys
access_gas(access_list) ==
    IF access_list = <<>> THEN 0
    ELSE 2400 + 1900 * access_list[1] + access_gas(Tail(access_list))

\* C26: intrinsic_gas(tx) is 21000 for a call or 53000 for a creation, plus 4
\* per zero data byte and 16 per non-zero data byte, plus for a creation 2 per
\* 32-byte word of data rounded up, plus 2400 per access-list address and 1900
\* per access-list storage key.
C26_IntrinsicGasFormula ==
    AppliedFn("intrinsic_gas") =>
        call.out = (IF call.arg.to.is_some THEN 21000 ELSE 53000)
                    + data_gas(call.arg.data)
                    + (IF call.arg.to.is_some THEN 0
                       ELSE 2 * ((Len(call.arg.data) + 31) \div 32))
                    + access_gas(call.arg.access_list)

\* a creation whose data ends inside a word, with an access list that has
\* storage keys
C26_Witness ==
    /\ AppliedFn("intrinsic_gas")
    /\ ~call.arg.to.is_some
    /\ Len(call.arg.data) = 33
    /\ call.arg.access_list = <<1, 3>>
    /\ call.out = 53000 + 11 * 4 + 22 * 16 + 2 * 2 + 2 * 2400 + 4 * 1900

\* C27: calc_excess_blob_gas(parent) is max(0, parent.excess_blob_gas +
\* parent.blob_gas_used - 393216) for every parent.
C27_ExcessBlobGasIsMax ==
    AppliedFn("calc_excess_blob_gas") =>
        /\ call.out.kind = "Ok"
        /\ call.out.value
            = LET d == call.arg.excess_blob_gas + call.arg.blob_gas_used - 393216
              IN IF d > 0 THEN d ELSE 0

\* C28: fake_exponential(factor, num, den) returns the accumulated sum divided
\* by den, rounding down, so that fake_exponential(1, d, d) = 2 and
\* get_base_fee_per_blob_gas of a block with excess_blob_gas = 0 is 1.
C28_FakeExponentialDivides ==
    /\ AppliedFn("fake_exponential") =>
        /\ call.out = fake_exponential_loop(1, 0, call.arg[1] * call.arg[3],
                                            call.arg[2], call.arg[3]) \div call.arg[3]
        /\ (call.arg[1] = 1 /\ call.arg[2] = call.arg[3]) => call.out = 2
    /\ (AppliedFn("get_base_fee_per_blob_gas") /\ call.arg.header.excess_blob_gas = 0)
            => call.out = 1


\* every bit of a 256-byte bloom
BloomBits == (0 .. 255) \X (0 .. 7)

\* C29: bloom_filter(L1 ++ L2) is the bitwise OR of bloom_filter(L1) and
\* bloom_filter(L2), adding logs never clears a bit, and merge_bloom of a list
\* of receipts is the bitwise OR of their blooms.
C29_BloomIsHomomorphism ==
    /\ AppliedFn("bloom_filter") =>
        /\ call.out.whole = call.out.left \cup call.out.right
        /\ call.out.left \subseteq call.out.whole
        /\ call.out.whole \subseteq BloomBits
    /\ AppliedFn("merge_bloom") =>
        \A bit \in BloomBits :
            bit \in call.out <=> \E i \in DOMAIN call.arg : bit \in call.arg[i].logs_bloom

\* two non-empty lists, each setting a bit the other leaves clear
C29_Witness ==
    /\ AppliedFn("bloom_filter")
    /\ call.arg[1] # <<>> /\ call.arg[2] # <<>>
    /\ call.out.left \ call.out.right # {}
    /\ call.out.right \ call.out.left # {}


\* C30: for every well-formed type-1 or type-2 transaction tx,
\* deserialization(serialization(tx)) equals tx, and for every byte string b
\* that deserialization accepts, serialization(deserialization(b)) equals b.
C30_EnvelopesRoundTrip ==
    /\ AppliedFn("serialization") =>
        /\ call.out.back.kind = "Ok"
        /\ call.out.back.value = call.arg
    /\ (AppliedFn("deserialization") /\ call.out.tx.kind = "Ok") =>
        /\ call.out.back.kind = "Ok"
        /\ call.out.back.value = call.arg


\* the number of items of the list that follows the type byte, if there is one
ItemCount(bytes) ==
    IF Len(bytes) >= 2 /\ bytes[2].rlp = "list" THEN Some(Len(bytes[2].items)) ELSE None

\* C31: deserialization returns a decode error, never a transaction and never
\* a crash, for every input whose leading type byte is not 1 or 2, for every
\* input whose payload item count does not match its type (11 items for
\* type 1, 12 for type 2), and for the empty input.
C31_DeserializationRejects ==
    (/\ AppliedFn("deserialization")
     /\ \/ Len(call.arg) = 0
        \/ leading_byte(call.arg) \notin {1, 2}
        \/ ItemCount(call.arg) # Some(IF leading_byte(call.arg) = 1 THEN 11 ELSE 12))
        => call.out.tx.kind = "Err"


====
